---- MODULE Spec2Model ----
\* Quiz generation / question-pool engine of Pivot: the GenerateQuiz use case,
\* the Question / QuestionOption entities and the Prisma question repository,
\* the quiz route, and the Roadmap aggregate with UpdateRoadmapItemStatus.
\* Strings are sequences of one-character strings so that trim() and string
\* concatenation are computed, not assumed.
EXTENDS Integers, Sequences, FiniteSets, TLC

VARIABLES questionTable, optionTable, roadmapStore, nextUuid, now,
          pc, ctx, tx, result, error, calls, storeAtCall, storeAtSave, backfilled,
          repoCall, heap, entity, client, http, update,
          roadmapTable, roadmapItemTable, quizAttemptTable, updates

\* the state of the quiz engine: the stores and the execute calls in flight
quizVars == <<questionTable, optionTable, roadmapStore, nextUuid, now,
              pc, ctx, tx, result, error, calls, storeAtCall, storeAtSave, backfilled>>

\* a repository call made directly; a Question entity in the hands of a caller;
\* a request to the quiz route; a call of UpdateRoadmapItemStatus
\* the roadmap tables of the database and the calls of UpdateRoadmapItemStatus
\* served on them side by side
statusVars == <<roadmapTable, roadmapItemTable, quizAttemptTable, updates>>

otherVars == <<repoCall, heap, entity, client, http, update, statusVars>>

vars == <<quizVars, otherVars>>

\* ------------------------------------------------------------------ bounds
\* largest number of matching questions seeded in the pool
MaxPool == 11
\* how many questions beyond the requested count the generator may deliver
OverDelivery == 1
\* resolution of Math.random(): it yields k / RandRes for k in 0..RandRes-1
RandRes == 2

\* ------------------------------------------------------- program constants
QUIZ_SIZE == 5
MIN_POOL_SIZE == 10
\* the generator contract: every draft carries four options
NumOptions == 4

Procs == {"p1", "p2"}

\* ------------------------------------------------------------------ strings
SP == " "
Empty == << >>

RECURSIVE TrimStart(_)
TrimStart(s) == IF s # << >> /\ Head(s) = SP THEN TrimStart(Tail(s)) ELSE s

RECURSIVE TrimEnd(_)
TrimEnd(s) ==
  IF s # << >> /\ s[Len(s)] = SP THEN TrimEnd(SubSeq(s, 1, Len(s) - 1)) ELSE s

\* String.prototype.trim
Trim(s) == TrimEnd(TrimStart(s))

\* ----------------------------------------------------------- value objects
\* mutant: RoadmapId.create without the trim
RoadmapIdCreate_NoTrim(value) ==
  IF value = Empty THEN "RoadmapId cannot be empty" ELSE ""

\* RoadmapId.create / RoadmapItemId.create: the message thrown, or "" if none
RoadmapIdCreate(value) ==
  IF value = Empty \/ Len(Trim(value)) = 0 THEN "RoadmapId cannot be empty" ELSE ""

RoadmapItemIdCreate(value) ==
  IF value = Empty \/ Len(Trim(value)) = 0 THEN "RoadmapItemId cannot be empty" ELSE ""

\* ---------------------------------------------------------------- entities
\* mutant: QuestionOption.create accepts any text
QuestionOptionCreateError_Lax(text) == ""

\* QuestionOption.create: the message thrown, or "" when the option is built
QuestionOptionCreateError(text) ==
  IF Len(Trim(text)) = 0 THEN "QuestionOption text cannot be empty" ELSE ""

QuestionOptionCreate(id, text, isCorrect) ==
  [id |-> id, text |-> text, isCorrect |-> isCorrect]

\* mutant: Question.create without the check of the tags
QuestionCreateError_NoTags(text, tags, difficulty) ==
  IF Len(Trim(text)) = 0 THEN "Question text cannot be empty"
  ELSE IF Len(Trim(difficulty)) = 0 THEN "Question difficulty cannot be empty"
  ELSE ""

\* Question.create: the message thrown, or "" when the question is built
QuestionCreateError(text, tags, difficulty) ==
  IF Len(Trim(text)) = 0 THEN "Question text cannot be empty"
  ELSE IF Len(tags) = 0 THEN "Question must have at least one tag"
  ELSE IF Len(Trim(difficulty)) = 0 THEN "Question difficulty cannot be empty"
  ELSE ""

QuestionCreate(id, text, tags, difficulty, options, date) ==
  [id |-> id, text |-> text, tags |-> tags, difficulty |-> difficulty,
   usageCount |-> 0, options |-> options, createdAt |-> date, updatedAt |-> date]

\* mutant: incrementUsage counts a use twice
incrementUsage_Double(q, date) ==
  [q EXCEPT !.usageCount = @ + 2, !.updatedAt = date]

\* mutant: incrementUsage touches updatedAt only
incrementUsage_Noop(q, date) == [q EXCEPT !.updatedAt = date]

\* Question.incrementUsage
incrementUsage(q, date) ==
  [q EXCEPT !.usageCount = @ + 1, !.updatedAt = date]

\* ------------------------------------------------------------ QuestionMapper
\* the option rows of one question, as a list in ascending id order
RECURSIVE RowsInIdOrder(_)
RowsInIdOrder(rows) ==
  IF rows = {} THEN << >>
  ELSE LET r == CHOOSE x \in rows : \A y \in rows : x.id <= y.id
       IN <<r>> \o RowsInIdOrder(rows \ {r})

\* QuestionMapper.toDomain: Question.reconstitute, no validation
toDomain(row, optionRows) ==
  [id |-> row.id, text |-> row.text, tags |-> row.tags, difficulty |-> row.difficulty,
   usageCount |-> row.usageCount,
   options |-> [i \in 1..Len(optionRows) |->
                  [id |-> optionRows[i].id, text |-> optionRows[i].text,
                   isCorrect |-> optionRows[i].isCorrect]],
   createdAt |-> row.createdAt, updatedAt |-> row.updatedAt]

\* QuestionMapper.toPersistence
toPersistence(question) ==
  [id |-> question.id, text |-> question.text, tags |-> question.tags,
   difficulty |-> question.difficulty, usageCount |-> question.usageCount,
   createdAt |-> question.createdAt, updatedAt |-> question.updatedAt,
   options |-> question.options]

\* ------------------------------------------------- PrismaQuestionRepository
\* the stored question with the given id, options included
StoredQuestion(qT, oT, id) ==
  toDomain(qT[id], RowsInIdOrder({o \in oT : o.questionId = id}))

\* mutant: every given tag must be a stored tag
hasSome_Every(stored, given) ==
  \A j \in 1..Len(given) : \E i \in 1..Len(stored) : stored[i] = given[j]

\* Prisma's hasSome: the stored tag list shares an element with the given list
hasSome(stored, given) ==
  \E i \in 1..Len(stored) : \E j \in 1..Len(given) : stored[i] = given[j]

\* orderBy usageCount asc; rows of equal usageCount come in id order
RECURSIVE OrderByUsage(_, _)
OrderByUsage(qT, ids) ==
  IF ids = {} THEN << >>
  ELSE LET m == CHOOSE x \in ids : \A y \in ids :
                  \/ qT[x].usageCount < qT[y].usageCount
                  \/ qT[x].usageCount = qT[y].usageCount /\ x <= y
       IN <<m>> \o OrderByUsage(qT, ids \ {m})

findByTags(qT, oT, tags, difficulty) ==
  LET ids == {id \in DOMAIN qT :
                hasSome(qT[id].tags, tags) /\ qT[id].difficulty = difficulty}
      ord == OrderByUsage(qT, ids)
  IN [i \in 1..Len(ord) |-> StoredQuestion(qT, oT, ord[i])]

\* findById of a question id that is not stored: null
NoQuestion == [id |-> 0]

\* findById, lines 71-79: findUnique with the options, mapped to the domain
findById(qT, oT, id) ==
  IF id \in DOMAIN qT THEN StoredQuestion(qT, oT, id) ELSE NoQuestion

\* mutant: the upsert leaves the given row alone in the table
upsert_Alone(qT, data) ==
  [id \in {data.id} |->
     [id |-> data.id, text |-> data.text, tags |-> data.tags,
      difficulty |-> data.difficulty, usageCount |-> data.usageCount,
      createdAt |-> data.createdAt, updatedAt |-> data.updatedAt]]

\* mutant: the upsert updates a stored row and never creates one
upsert_UpdateOnly(qT, data) ==
  IF data.id \in DOMAIN qT
    THEN [qT EXCEPT ![data.id].usageCount = data.usageCount,
                    ![data.id].updatedAt = data.updatedAt]
    ELSE qT

\* tx.question.upsert: create the row, or update every column but id and createdAt
upsert(qT, data) ==
  LET row == [id |-> data.id, text |-> data.text, tags |-> data.tags,
              difficulty |-> data.difficulty, usageCount |-> data.usageCount,
              createdAt |-> data.createdAt, updatedAt |-> data.updatedAt]
  IN IF data.id \in DOMAIN qT
       THEN [qT EXCEPT ![data.id] = [row EXCEPT !.createdAt = qT[data.id].createdAt]]
       ELSE [id \in DOMAIN qT \cup {data.id} |-> IF id = data.id THEN row ELSE qT[id]]

\* mutant: the stored options of the question are not deleted
deleteMany_Keep(oT, questionId) == oT

\* tx.questionOption.deleteMany where questionId
deleteMany(oT, questionId) == {o \in oT : o.questionId # questionId}

\* tx.questionOption.createMany
createMany(oT, data) ==
  oT \cup {[id |-> data.options[i].id, questionId |-> data.id,
            text |-> data.options[i].text, isCorrect |-> data.options[i].isCorrect] :
           i \in 1..Len(data.options)}

\* the statements saveMany issues for a list of questions, in order
RECURSIVE Statements(_)
Statements(questions) ==
  IF questions = << >> THEN << >>
  ELSE LET data == toPersistence(Head(questions))
       IN <<[op |-> "upsert", data |-> data], [op |-> "deleteMany", data |-> data]>>
          \o (IF Len(data.options) > 0 THEN <<[op |-> "createMany", data |-> data]>>
              ELSE << >>)
          \o Statements(Tail(questions))

\* the effect of a list of statements on the two tables
RECURSIVE ApplyWrites(_, _, _)
ApplyWrites(qT, oT, writes) ==
  IF writes = << >> THEN [q |-> qT, o |-> oT]
  ELSE LET w == Head(writes)
       IN CASE w.op = "upsert" -> ApplyWrites(upsert(qT, w.data), oT, Tail(writes))
            [] w.op = "deleteMany" -> ApplyWrites(qT, deleteMany(oT, w.data.id), Tail(writes))
            [] w.op = "createMany" -> ApplyWrites(qT, createMany(oT, w.data), Tail(writes))

\* --------------------------------------------------------------- GenerateQuiz
\* Math.floor(Math.random() * (i + 1)) for the draw k / RandRes
RandomIndex(k, i) == (k * (i + 1)) \div RandRes

\* the draw made at loop index i of one shuffle: the stream (a, b) of a call
Draw(rnd, i) == (rnd.a + rnd.b * i) % RandRes

\* the Fisher-Yates loop, i = length-1 down to 1 (0-based as in the source)
RECURSIVE FisherYates(_, _, _)
FisherYates(shuffled, i, rnd) ==
  IF i <= 0 THEN shuffled
  ELSE LET j == RandomIndex(Draw(rnd, i), i)
           swapped == [shuffled EXCEPT ![i + 1] = shuffled[j + 1],
                                       ![j + 1] = shuffled[i + 1]]
       IN FisherYates(swapped, i - 1, rnd)

Min(a, b) == IF a <= b THEN a ELSE b

\* mutant: count independent random picks instead of a shuffled prefix
selectRandomQuestions_Picks(questions, count, rnd) ==
  [i \in 1..Min(count, Len(questions)) |->
     questions[RandomIndex(Draw(rnd, i), Len(questions) - 1) + 1]]

\* mutant: a pool shorter than count is padded with its first question
selectRandomQuestions_Padded(questions, count, rnd) ==
  IF Len(questions) = 0 \/ Len(questions) >= count
    THEN SubSeq(FisherYates(questions, Len(questions) - 1, rnd), 1, Min(count, Len(questions)))
    ELSE questions \o [i \in 1..(count - Len(questions)) |-> questions[1]]

selectRandomQuestions(questions, count, rnd) ==
  IF Len(questions) <= count THEN questions
  ELSE SubSeq(FisherYates(questions, Len(questions) - 1, rnd), 1, count)

QuizPrefix == <<"Q", "u", "i", "z", ":", " ">>

\* mutant: the option of the DTO keeps the correctness flag
OptionDTO_WithCorrect(opt) == [id |-> opt.id, text |-> opt.text, isCorrect |-> opt.isCorrect]

\* the option of a QuizDTO
OptionDTO(opt) == [id |-> opt.id, text |-> opt.text]

\* the QuizDTO built at the end of execute
QuizDTOOf(item, selectedQuestions) ==
  [roadmapItemId |-> item.id,
   title |-> QuizPrefix \o item.title,
   difficulty |-> item.difficulty,
   questions |-> [i \in 1..Len(selectedQuestions) |->
      [id |-> selectedQuestions[i].id,
       text |-> selectedQuestions[i].text,
       options |-> [k \in 1..Len(selectedQuestions[i].options) |->
                      OptionDTO(selectedQuestions[i].options[k])]]]]

\* mutant: the generated questions are tagged with the title of the item
TopicOf_Title(item) == item.title

\* the generator topic and the lookup tags of an item
TopicOf(item) == IF item.topic # Empty THEN item.topic ELSE item.title
TagsOf(item) == IF item.topic # Empty THEN <<item.topic>> ELSE << >>

\* the first error the draft-to-entity loop of generateAndSaveQuestions throws
RECURSIVE OptionsError(_)
OptionsError(opts) ==
  IF opts = << >> THEN ""
  ELSE IF QuestionOptionCreateError(Head(opts).text) # ""
         THEN QuestionOptionCreateError(Head(opts).text)
         ELSE OptionsError(Tail(opts))

RECURSIVE DraftsError(_, _, _)
DraftsError(generatedData, topic, difficulty) ==
  IF generatedData = << >> THEN ""
  ELSE LET qData == Head(generatedData)
           oe == OptionsError(qData.options)
           qe == QuestionCreateError(qData.text, <<topic>>, difficulty)
       IN IF oe # "" THEN oe
          ELSE IF qe # "" THEN qe
          ELSE DraftsError(Tail(generatedData), topic, difficulty)

\* the entities built from the drafts; uuid is the first fresh identifier
RECURSIVE BuildQuestions(_, _, _, _, _)
BuildQuestions(generatedData, topic, difficulty, uuid, date) ==
  IF generatedData = << >> THEN << >>
  ELSE LET qData == Head(generatedData)
           options == [k \in 1..Len(qData.options) |->
                         QuestionOptionCreate(uuid + k, qData.options[k].text,
                                              qData.options[k].isCorrect)]
       IN <<QuestionCreate(uuid, qData.text, <<topic>>, difficulty, options, date)>>
          \o BuildQuestions(Tail(generatedData), topic, difficulty,
                            uuid + Len(qData.options) + 1, date)

\* fresh identifiers consumed by a batch of drafts
RECURSIVE UuidsUsed(_)
UuidsUsed(generatedData) ==
  IF generatedData = << >> THEN 0
  ELSE Len(Head(generatedData).options) + 1 + UuidsUsed(Tail(generatedData))

\* ------------------------------------------------------------- initial state
TopicHooks == <<"h">>
TopicOther == <<"o">>
Beginner == <<"b">>
Advanced == <<"a">>

\* a seeded question: identifier slot j, four options, one of them correct
SeedRow(j, tags, difficulty, usage) ==
  [id |-> (NumOptions + 1) * (j - 1) + 1, text |-> <<"s">>, tags |-> tags,
   difficulty |-> difficulty, usageCount |-> usage, createdAt |-> 0, updatedAt |-> 0]

SeedOptions(j) ==
  {[id |-> (NumOptions + 1) * (j - 1) + 1 + k, questionId |-> (NumOptions + 1) * (j - 1) + 1,
    text |-> <<"o">>, isCorrect |-> (k = (j % NumOptions) + 1)] : k \in 1..NumOptions}

\* n questions of the pool (hooks, beginner), then one of another difficulty
\* and one of another topic
SeedRows(n) ==
  {SeedRow(j, <<TopicHooks>>, Beginner, (n - j) % 3) : j \in 1..n}
    \cup {SeedRow(n + 1, <<TopicHooks>>, Advanced, 0),
          SeedRow(n + 2, <<TopicOther, TopicHooks>>, Advanced, 1),
          SeedRow(n + 3, <<TopicOther>>, Beginner, 0)}

SeedQuestionTable(n) ==
  LET rows == SeedRows(n)
  IN [id \in {r.id : r \in rows} |-> CHOOSE r \in rows : r.id = id]

SeedOptionTable(n) == UNION {SeedOptions(j) : j \in 1..(n + 3)}

\* the roadmap the RoadmapRepository port holds: two theory items (one with a
\* blank topic) and one project item
RoadmapItemOf(id, title, order, type, topic, difficulty) ==
  [id |-> id, title |-> title, description |-> <<"d">>, order |-> order,
   status |-> "pending", type |-> type, topic |-> topic, difficulty |-> difficulty,
   submissionUrl |-> "null"]

SeedRoadmap ==
  [id |-> <<"r">>, title |-> <<"R">>,
   items |-> <<RoadmapItemOf(<<"1">>, <<"H">>, 1, "theory", TopicHooks, Beginner),
               RoadmapItemOf(<<"2">>, <<"P">>, 2, "project", TopicHooks, Beginner),
               RoadmapItemOf(<<"3">>, <<"T">>, 3, "theory", Empty, Beginner)>>]

NoItem == RoadmapItemOf(Empty, Empty, 0, "none", Empty, Empty)

NoContext ==
  [roadmapId |-> Empty, itemId |-> Empty, item |-> NoItem, tags |-> << >>,
   poolSize |-> -1, existingQuestions |-> << >>, newQuestions |-> << >>, allQuestions |-> << >>,
   draws |-> [a |-> 0, b |-> 0], selectedQuestions |-> << >>]

NoTx == [state |-> "none", questions |-> << >>, issued |-> 0]

NoQuiz == [roadmapItemId |-> Empty, title |-> Empty, difficulty |-> Empty, questions |-> << >>]

\* no repository call has been made directly
NoRepoCall ==
  [op |-> "none", questions |-> << >>, tags |-> << >>, difficulty |-> Empty,
   before |-> [q |-> << >>, o |-> {}], once |-> [q |-> << >>, o |-> {}],
   result |-> << >>, ok |-> TRUE, times |-> 0]

\* no array has been allocated, no Question entity has been built
NoHeap == << >>
NoEntity ==
  [state |-> "none", id |-> 0, text |-> Empty, tags |-> 0, difficulty |-> Empty,
   usageCount |-> 0, options |-> 0, createdAt |-> 0, updatedAt |-> 0]
NoClient ==
  [built |-> "none", error |-> "",
   given |-> [text |-> Empty, tags |-> << >>, difficulty |-> Empty,
              usageCount |-> 0, options |-> << >>, createdAt |-> 0, updatedAt |-> 0],
   held |-> {}, increments |-> 0, reads |-> 0, mutations |-> 0, rereads |-> 0,
   lastTags |-> << >>, lastOptions |-> << >>]

\* no request has reached the quiz route, no AI response has arrived
NoRaw == [json |-> FALSE, text |-> << >>, questions |-> << >>]
NoHttp == [stage |-> "idle", raw |-> NoRaw, thrown |-> << >>, status |-> 0, code |-> ""]

\* no roadmap is held, no RoadmapDTO has been returned
NoRoadmap ==
  [id |-> Empty, goalId |-> Empty, title |-> Empty, items |-> << >>,
   createdAt |-> 0, updatedAt |-> 0]
NoRoadmapDTO ==
  [id |-> Empty, goalId |-> Empty, title |-> Empty, progress |-> -1, items |-> << >>,
   createdAt |-> 0, updatedAt |-> 0]

\* no call of UpdateRoadmapItemStatus is under way
NoUpdate ==
  [stage |-> "idle", roadmapId |-> Empty, itemId |-> Empty, status |-> "pending",
   roadmap |-> NoRoadmap, was |-> "none", saves |-> 0, error |-> "",
   returned |-> NoRoadmapDTO]

\* no call of UpdateRoadmapItemStatus is served on the roadmap tables
NoStatusCall ==
  [stage |-> "idle", roadmapId |-> Empty, itemId |-> Empty, status |-> "pending",
   roadmap |-> NoRoadmap, error |-> "", returned |-> NoRoadmapDTO,
   before |-> [r |-> << >>, i |-> {}, a |-> {}]]

\* the roadmap tables are empty and no call is served on them
StatusAtRest ==
  /\ roadmapTable = << >>
  /\ roadmapItemTable = {}
  /\ quizAttemptTable = {}
  /\ updates = [p \in Procs |-> NoStatusCall]

OthersAtRest ==
  /\ repoCall = NoRepoCall
  /\ heap = NoHeap
  /\ entity = NoEntity
  /\ client = NoClient
  /\ http = NoHttp
  /\ update = NoUpdate
  /\ StatusAtRest

Init ==
  /\ OthersAtRest
  /\ \E n \in 0..MaxPool :
       /\ questionTable = SeedQuestionTable(n)
       /\ optionTable = SeedOptionTable(n)
       /\ nextUuid = (NumOptions + 1) * (n + 3) + 1
  /\ roadmapStore = [id \in {SeedRoadmap.id} |-> SeedRoadmap]
  /\ now = 1
  /\ pc = [p \in Procs |-> "idle"]
  /\ ctx = [p \in Procs |-> NoContext]
  /\ tx = [p \in Procs |-> NoTx]
  /\ result = [p \in Procs |-> NoQuiz]
  /\ error = [p \in Procs |-> ""]
  /\ calls = [p \in Procs |-> << >>]
  /\ storeAtCall = [p \in Procs |-> [q |-> questionTable, o |-> optionTable]]
  /\ storeAtSave = [p \in Procs |-> [q |-> questionTable, o |-> optionTable]]
  /\ backfilled = [p \in Procs |-> {}]

\* -------------------------------------------------------------------- inputs
RoadmapIdInputs == {<<"r">>, <<"x">>, <<SP>>}
ItemIdInputs == {<<"1">>, <<"2">>, <<"3">>, <<"9">>, Empty}

\* what the generator port may deliver for a request of count questions:
\* m drafts, all well formed except at most one (position bad, 0 for none)
GeneratedDraft(i, bad, kind, c) ==
  [text |-> IF i = bad /\ kind = "text" THEN <<SP>> ELSE <<"q">>,
   options |-> [k \in 1..NumOptions |->
      [text |-> IF i = bad /\ kind = "option" /\ k = 2 THEN Empty ELSE <<"o">>,
       isCorrect |-> (k = ((i + c) % NumOptions) + 1)]]]

GeneratedData(m, bad, kind, c) == [i \in 1..m |-> GeneratedDraft(i, bad, kind, c)]

GeneratorError == "AI_RESPONSE_FORMAT_ERROR: No questions received from AI model"
PersistenceFailure == "PersistenceFailure"
ProjectItemError == "Cannot generate quiz for PROJECT items. Use URL submission instead."

\* ------------------------------------------------------------------- actions
Fail(p, message) ==
  /\ pc' = [pc EXCEPT ![p] = "failed"]
  /\ error' = [error EXCEPT ![p] = message]

\* no other execute has been called
NoOtherCall(p) == \A q \in Procs \ {p} : pc[q] = "idle"

\* execute, lines 118-123: the value objects, then the roadmap lookup is issued
Call(p, roadmapId, roadmapItemId) ==
  /\ pc[p] = "idle"
  /\ now' = now + 1
  /\ ctx' = [ctx EXCEPT ![p] = [NoContext EXCEPT !.roadmapId = roadmapId,
                                                 !.itemId = roadmapItemId]]
  /\ storeAtCall' = [storeAtCall EXCEPT ![p] = [q |-> questionTable, o |-> optionTable]]
  /\ IF RoadmapIdCreate(roadmapId) # ""
       THEN Fail(p, RoadmapIdCreate(roadmapId)) /\ UNCHANGED calls
     ELSE IF RoadmapItemIdCreate(roadmapItemId) # ""
       THEN Fail(p, RoadmapItemIdCreate(roadmapItemId)) /\ UNCHANGED calls
     ELSE /\ pc' = [pc EXCEPT ![p] = "findById"]
          /\ calls' = [calls EXCEPT ![p] = <<[op |-> "findById", arg |-> roadmapId]>>]
          /\ UNCHANGED error
  /\ UNCHANGED <<questionTable, optionTable, roadmapStore, nextUuid, tx, result,
                 storeAtSave, backfilled>>

\* mutant: the eligibility gate lets every type through
NotTheory_Never(item) == FALSE

\* the eligibility gate of execute, line 133
NotTheory(item) == item.type # "theory"

\* execute, lines 123-144: the roadmap arrives; item lookup, eligibility gate,
\* and the pool lookup is issued
FindById(p) ==
  /\ pc[p] = "findById"
  /\ IF ctx[p].roadmapId \notin DOMAIN roadmapStore
       THEN Fail(p, "Roadmap not found") /\ UNCHANGED <<ctx, calls>>
     ELSE LET roadmap == roadmapStore[ctx[p].roadmapId]
              found == {i \in 1..Len(roadmap.items) : roadmap.items[i].id = ctx[p].itemId}
          IN IF found = {}
               THEN Fail(p, "Roadmap item not found") /\ UNCHANGED <<ctx, calls>>
             ELSE LET item == roadmap.items[CHOOSE i \in found : \A k \in found : i <= k]
                  IN IF NotTheory(item)
                       THEN /\ Fail(p, ProjectItemError)
                            /\ ctx' = [ctx EXCEPT ![p].item = item]
                            /\ UNCHANGED calls
                     ELSE /\ pc' = [pc EXCEPT ![p] = "findByTags"]
                          /\ ctx' = [ctx EXCEPT ![p].item = item, ![p].tags = TagsOf(item)]
                          /\ calls' = [calls EXCEPT ![p] = @ \o
                               <<[op |-> "findByTags",
                                  arg |-> [tags |-> TagsOf(item),
                                           difficulty |-> item.difficulty]]>>]
                          /\ UNCHANGED error
  /\ UNCHANGED <<questionTable, optionTable, roadmapStore, nextUuid, now, tx, result,
                 storeAtCall, storeAtSave, backfilled>>

\* saveMany is entered: the transaction is opened, nothing is issued yet
BeginSaveMany(p, questions, qT, oT) ==
  /\ tx' = [tx EXCEPT ![p] = [state |-> "open", questions |-> questions, issued |-> 0]]
  /\ storeAtSave' = [storeAtSave EXCEPT ![p] = [q |-> qT, o |-> oT]]

\* execute, lines 158-168: sample, increment the usage of the sample, and
\* enter the saveMany of the sample
SampleAndSave(p, context, allQuestions, log, rnd, qT, oT) ==
  LET selected == selectRandomQuestions(allQuestions, QUIZ_SIZE, rnd)
      selectedQuestions == [i \in 1..Len(selected) |-> incrementUsage(selected[i], now)]
      \* no draw is made when the pool is returned whole
      draws == IF Len(allQuestions) <= QUIZ_SIZE THEN [a |-> 0, b |-> 0] ELSE rnd
  IN /\ ctx' = [ctx EXCEPT ![p] = [context EXCEPT !.allQuestions = allQuestions,
                                                  !.draws = draws,
                                                  !.selectedQuestions = selectedQuestions]]
     /\ BeginSaveMany(p, selectedQuestions, qT, oT)
     /\ pc' = [pc EXCEPT ![p] = "saveUsage"]
     /\ calls' = [calls EXCEPT ![p] = log \o
          <<[op |-> "saveMany",
             arg |-> [i \in 1..Len(selectedQuestions) |-> selectedQuestions[i].id]]>>]

RandomStreams == [a : 0..(RandRes - 1), b : 0..(RandRes - 1)]

\* mutant: the generator is asked for a whole pool whatever the pool holds
neededCount_Whole(existingQuestions) == MIN_POOL_SIZE

\* execute, line 149
neededCount(existingQuestions) == MIN_POOL_SIZE - Len(existingQuestions)

\* execute, lines 141-156: the pool arrives; either the generator is called
\* for the missing questions or the pool is sampled as it is
FindByTags(p) ==
  /\ pc[p] = "findByTags"
  /\ LET existingQuestions ==
           findByTags(questionTable, optionTable, ctx[p].tags, ctx[p].item.difficulty)
         context == [ctx[p] EXCEPT !.existingQuestions = existingQuestions,
                                   !.poolSize = Len(existingQuestions)]
     IN IF Len(existingQuestions) < MIN_POOL_SIZE
          THEN /\ pc' = [pc EXCEPT ![p] = "generate"]
               /\ ctx' = [ctx EXCEPT ![p] = context]
               /\ calls' = [calls EXCEPT ![p] = @ \o
                    <<[op |-> "generate",
                       arg |-> [topic |-> TopicOf(ctx[p].item),
                                difficulty |-> ctx[p].item.difficulty,
                                count |-> neededCount(existingQuestions)]]>>]
               /\ UNCHANGED <<tx, storeAtSave>>
          ELSE \E rnd \in RandomStreams :
                 SampleAndSave(p, context, existingQuestions, calls[p], rnd,
                               questionTable, optionTable)
  /\ UNCHANGED <<questionTable, optionTable, roadmapStore, nextUuid, now, result, error,
                 storeAtCall, backfilled>>

\* the count of the generate call in flight
NeededCount(p) == calls[p][Len(calls[p])].arg.count

\* mutant: the generated batch is not handed to saveMany
savedBatch_None(questions) == << >>

\* mutant: only the first generated question is handed to saveMany
savedBatch_First(questions) == IF questions = << >> THEN << >> ELSE <<questions[1]>>

\* generateAndSaveQuestions, line 220: the batch handed to saveMany
savedBatch(questions) == questions

\* generateAndSaveQuestions, lines 192-220: the generator throws
GenerateThrows(p) ==
  /\ pc[p] = "generate"
  /\ Fail(p, GeneratorError)
  /\ UNCHANGED <<questionTable, optionTable, roadmapStore, nextUuid, now, ctx, tx, result,
                 calls, storeAtCall, storeAtSave, backfilled>>

\* generateAndSaveQuestions, lines 192-220: the drafts arrive, the entities are
\* built (or a draft is rejected) and the saveMany of the batch is entered
GenerateFrom(p, generatedData) ==
  /\ pc[p] = "generate"
  /\ LET topic == TopicOf(ctx[p].item)
         difficulty == ctx[p].item.difficulty
         err == DraftsError(generatedData, topic, difficulty)
         questions == BuildQuestions(generatedData, topic, difficulty, nextUuid, now)
     IN IF err # ""
          THEN /\ Fail(p, err)
               /\ UNCHANGED <<nextUuid, ctx, tx, calls, storeAtSave>>
          ELSE /\ nextUuid' = nextUuid + UuidsUsed(generatedData)
               /\ ctx' = [ctx EXCEPT ![p].newQuestions = questions]
               /\ BeginSaveMany(p, savedBatch(questions), questionTable, optionTable)
               /\ pc' = [pc EXCEPT ![p] = "saveNew"]
               /\ calls' = [calls EXCEPT ![p] = @ \o
                    <<[op |-> "saveMany",
                       arg |-> [i \in 1..Len(savedBatch(questions)) |->
                                  savedBatch(questions)[i].id]]>>]
               /\ UNCHANGED error
  /\ UNCHANGED <<questionTable, optionTable, roadmapStore, now, result,
                 storeAtCall, backfilled>>

\* the generator port delivers m drafts of four options, one of them correct
Generate(p, m, bad, kind, c) == GenerateFrom(p, GeneratedData(m, bad, kind, c))

\* the statement the open transaction of p issues next
InSaveMany(p) == pc[p] \in {"saveNew", "saveUsage"}
NextStatement(p) == Statements(tx[p].questions)[tx[p].issued + 1]
HasNextStatement(p) == tx[p].issued < Len(Statements(tx[p].questions))

IssueStatement(p, op) ==
  /\ InSaveMany(p)
  /\ HasNextStatement(p)
  /\ NextStatement(p).op = op
  /\ tx' = [tx EXCEPT ![p].issued = @ + 1]
  /\ UNCHANGED <<questionTable, optionTable, roadmapStore, nextUuid, now, pc, ctx, result,
                 error, calls, storeAtCall, storeAtSave, backfilled>>

\* saveMany, lines 29-47
TxUpsert(p) == IssueStatement(p, "upsert")
\* saveMany, lines 49-51
TxDeleteMany(p) == IssueStatement(p, "deleteMany")
\* saveMany, lines 53-62
TxCreateMany(p) == IssueStatement(p, "createMany")

\* mutant: the statements run on the client, not on the transaction, so the
\* ones issued before the failure stay
Rollback_Partial(qT, oT, statements, issued) ==
  ApplyWrites(qT, oT, SubSeq(statements, 1, issued))

\* mutant: the first statement issued is committed on its own
Rollback_FirstStatement(qT, oT, statements, issued) ==
  ApplyWrites(qT, oT, SubSeq(statements, 1, IF issued > 0 THEN 1 ELSE 0))

\* what a transaction that throws leaves of its issued statements in the tables
Rollback(qT, oT, statements, issued) == [q |-> qT, o |-> oT]

\* saveMany, lines 24-68: a statement, the commit or the 30 s timeout fails;
\* the transaction is rolled back and the error reaches the caller of execute
TxFail(p) ==
  /\ InSaveMany(p)
  /\ LET after == Rollback(questionTable, optionTable,
                           Statements(tx[p].questions), tx[p].issued)
     IN /\ questionTable' = after.q
        /\ optionTable' = after.o
  /\ Fail(p, PersistenceFailure)
  /\ tx' = [tx EXCEPT ![p].state = "rolledBack"]
  /\ UNCHANGED <<roadmapStore, nextUuid, now, ctx, result, calls,
                 storeAtCall, storeAtSave, backfilled>>

\* saveMany, lines 24-68: the callback returned and the transaction commits.
\* After the backfill save, execute goes on to sample (lines 155-168); after
\* the save of the sample it returns the QuizDTO (lines 170-184)
TxCommit(p) ==
  /\ InSaveMany(p)
  /\ ~HasNextStatement(p)
  /\ LET after == ApplyWrites(questionTable, optionTable, Statements(tx[p].questions))
     IN /\ questionTable' = after.q
        /\ optionTable' = after.o
  /\ IF pc[p] = "saveNew"
       THEN /\ backfilled' = [backfilled EXCEPT ![p] =
                                {tx[p].questions[i].id : i \in 1..Len(tx[p].questions)}]
            /\ \E rnd \in RandomStreams :
                 SampleAndSave(p, ctx[p], ctx[p].existingQuestions \o ctx[p].newQuestions,
                               calls[p], rnd, questionTable', optionTable')
            /\ UNCHANGED result
       ELSE /\ pc' = [pc EXCEPT ![p] = "done"]
            /\ tx' = [tx EXCEPT ![p].state = "committed"]
            /\ result' = [result EXCEPT ![p] =
                            QuizDTOOf(ctx[p].item, ctx[p].selectedQuestions)]
            /\ UNCHANGED <<ctx, calls, storeAtSave, backfilled>>
  /\ UNCHANGED <<roadmapStore, nextUuid, now, error, storeAtCall>>

\* a repository read (roadmap findById, findByTags) fails
ReadFails(p) ==
  /\ pc[p] \in {"findById", "findByTags"}
  /\ Fail(p, PersistenceFailure)
  /\ UNCHANGED <<questionTable, optionTable, roadmapStore, nextUuid, now, ctx, tx, result,
                 calls, storeAtCall, storeAtSave, backfilled>>

\* one step of the execute call of p, once it is under way
Step(p) ==
  \/ FindById(p) /\ UNCHANGED otherVars
  \/ FindByTags(p) /\ UNCHANGED otherVars
  \/ GenerateThrows(p) /\ UNCHANGED otherVars
  \/ /\ pc[p] = "generate"
     /\ \E m \in 0..(NeededCount(p) + OverDelivery), c \in 0..1 :
          \E bad \in {0, 1, m}, kind \in {"text", "option"} : Generate(p, m, bad, kind, c)
     /\ UNCHANGED otherVars
  \/ TxUpsert(p) /\ UNCHANGED otherVars
  \/ TxDeleteMany(p) /\ UNCHANGED otherVars
  \/ TxCreateMany(p) /\ UNCHANGED otherVars
  \/ TxFail(p) /\ UNCHANGED otherVars
  \/ TxCommit(p) /\ UNCHANGED otherVars
  \/ ReadFails(p) /\ UNCHANGED otherVars

\* one execute call, by either caller, from any of the seeded pools
Next ==
  \E p \in Procs :
    \/ /\ NoOtherCall(p)
       /\ \E r \in RoadmapIdInputs, i \in ItemIdInputs : Call(p, r, i)
       /\ UNCHANGED otherVars
    \/ Step(p)

Spec == Init /\ [][Next]_vars

\* ------------------------------------- the question repository, called directly
\* the longest list handed to saveMany
MaxBatch == 2
\* the number of pool questions in the store the repository calls start from
RepoSeed == 3

\* the quiz engine is at rest on a store of n pool questions
QuizAtRest(n) ==
  /\ questionTable = SeedQuestionTable(n)
  /\ optionTable = SeedOptionTable(n)
  /\ nextUuid = (NumOptions + 1) * (n + 3) + 1
  /\ roadmapStore = [id \in {SeedRoadmap.id} |-> SeedRoadmap]
  /\ now = 1
  /\ pc = [p \in Procs |-> "idle"]
  /\ ctx = [p \in Procs |-> NoContext]
  /\ tx = [p \in Procs |-> NoTx]
  /\ result = [p \in Procs |-> NoQuiz]
  /\ error = [p \in Procs |-> ""]
  /\ calls = [p \in Procs |-> << >>]
  /\ storeAtCall = [p \in Procs |-> [q |-> questionTable, o |-> optionTable]]
  /\ storeAtSave = [p \in Procs |-> [q |-> questionTable, o |-> optionTable]]
  /\ backfilled = [p \in Procs |-> {}]

\* what a direct repository call leaves alone
engineVars == <<roadmapStore, nextUuid, now, pc, ctx, tx, result, error, calls,
                storeAtCall, storeAtSave, backfilled>>

\* tx.questionOption.createMany throws: an option id of the data is already a
\* primary key of the option table, or comes twice in the data
createManyFails(oT, data) ==
  \/ \E i \in 1..Len(data.options) : \E o \in oT : o.id = data.options[i].id
  \/ \E i, k \in 1..Len(data.options) : i # k /\ data.options[i].id = data.options[k].id

\* the number of statements issued when the first one throws, -1 if none does
RECURSIVE FirstFailure(_, _, _, _)
FirstFailure(qT, oT, writes, issued) ==
  IF writes = << >> THEN -1
  ELSE LET w == Head(writes)
       IN CASE w.op = "upsert" ->
                 FirstFailure(upsert(qT, w.data), oT, Tail(writes), issued + 1)
            [] w.op = "deleteMany" ->
                 FirstFailure(qT, deleteMany(oT, w.data.id), Tail(writes), issued + 1)
            [] w.op = "createMany" ->
                 IF createManyFails(oT, w.data) THEN issued
                 ELSE FirstFailure(qT, createMany(oT, w.data), Tail(writes), issued + 1)

\* saveMany as one call: the tables it leaves and whether it returned
saveMany(qT, oT, questions) ==
  LET statements == Statements(questions)
      failedAt == FirstFailure(qT, oT, statements, 0)
      after == IF failedAt >= 0 THEN Rollback(qT, oT, statements, failedAt)
               ELSE ApplyWrites(qT, oT, statements)
  IN [q |-> after.q, o |-> after.o, ok |-> failedAt < 0]

\* the identifiers the direct calls use: a stored question, a question not
\* stored yet, and an option stored under another question
StoredId == 1
FreshId == (NumOptions + 1) * (RepoSeed + 3) + 1
ForeignOptionId == (NumOptions + 1) * RepoSeed + 2

\* the forms of a question a caller may hand to saveMany
RepoForms == {"full", "fewer", "bare", "clash"}

RepoQuestion(id, form) ==
  CASE form = "full" ->
         [id |-> id, text |-> <<"n">>, tags |-> <<TopicOther>>, difficulty |-> Beginner,
          usageCount |-> 2,
          options |-> [k \in 1..NumOptions |-> QuestionOptionCreate(id + k, <<"n">>, k = 1)],
          createdAt |-> 5, updatedAt |-> 6]
    [] form = "fewer" ->
         [id |-> id, text |-> <<"m">>, tags |-> <<TopicHooks, TopicOther>>,
          difficulty |-> Advanced, usageCount |-> 5,
          options |-> [k \in 1..2 |-> QuestionOptionCreate(id + k + 1, <<"m">>, k = 2)],
          createdAt |-> 7, updatedAt |-> 8]
    [] form = "bare" ->
         [id |-> id, text |-> <<"e">>, tags |-> <<TopicHooks>>, difficulty |-> Beginner,
          usageCount |-> 0, options |-> << >>, createdAt |-> 9, updatedAt |-> 9]
    [] form = "clash" ->
         [id |-> id, text |-> <<"c">>, tags |-> <<TopicHooks>>, difficulty |-> Beginner,
          usageCount |-> 1,
          options |-> <<QuestionOptionCreate(id + 1, <<"c">>, TRUE),
                        QuestionOptionCreate(ForeignOptionId, <<"c">>, FALSE)>>,
          createdAt |-> 3, updatedAt |-> 4]

RepoQuestions == {RepoQuestion(id, form) : id \in {StoredId, FreshId}, form \in RepoForms}

RepoBatches ==
  UNION {[1..len -> RepoQuestions] : len \in 0..MaxBatch}

TagInputs == {<< >>, <<TopicHooks>>, <<TopicOther>>, <<TopicOther, TopicHooks>>, <<<<"z">>>>}
DifficultyInputs == {Beginner, Advanced, <<"B">>}

\* saveMany(questions), called by itself
RepoSaveMany(questions) ==
  /\ repoCall.op = "none"
  /\ LET after == saveMany(questionTable, optionTable, questions)
     IN /\ questionTable' = after.q
        /\ optionTable' = after.o
        /\ repoCall' = [NoRepoCall EXCEPT !.op = "saveMany", !.questions = questions,
                                          !.before = [q |-> questionTable, o |-> optionTable],
                                          !.once = [q |-> after.q, o |-> after.o],
                                          !.ok = after.ok, !.times = 1]
  /\ UNCHANGED <<engineVars, heap, entity, client, http, update, statusVars>>

\* the same saveMany(questions), called a second time
RepoSaveAgain ==
  /\ repoCall.op = "saveMany"
  /\ repoCall.times = 1
  /\ LET after == saveMany(questionTable, optionTable, repoCall.questions)
     IN /\ questionTable' = after.q
        /\ optionTable' = after.o
        /\ repoCall' = [repoCall EXCEPT !.ok = after.ok, !.times = 2]
  /\ UNCHANGED <<engineVars, heap, entity, client, http, update, statusVars>>

\* findByTags(tags, difficulty), called by itself
RepoFindByTags(tags, difficulty) ==
  /\ repoCall.op # "findByTags"
  /\ repoCall' = [NoRepoCall EXCEPT !.op = "findByTags", !.tags = tags,
                                    !.difficulty = difficulty,
                                    !.result = findByTags(questionTable, optionTable,
                                                          tags, difficulty)]
  /\ UNCHANGED <<questionTable, optionTable, engineVars, heap, entity, client, http, update, statusVars>>

\* the seeded store, as it is or after an earlier saveMany of one question
InitRepo ==
  /\ \E earlier \in {<< >>} \cup {<<q>> : q \in RepoQuestions} :
       LET seeded == saveMany(SeedQuestionTable(RepoSeed), SeedOptionTable(RepoSeed), earlier)
       IN /\ questionTable = seeded.q
          /\ optionTable = seeded.o
  /\ nextUuid = FreshId
  /\ roadmapStore = [id \in {SeedRoadmap.id} |-> SeedRoadmap]
  /\ now = 1
  /\ pc = [p \in Procs |-> "idle"]
  /\ ctx = [p \in Procs |-> NoContext]
  /\ tx = [p \in Procs |-> NoTx]
  /\ result = [p \in Procs |-> NoQuiz]
  /\ error = [p \in Procs |-> ""]
  /\ calls = [p \in Procs |-> << >>]
  /\ storeAtCall = [p \in Procs |-> [q |-> questionTable, o |-> optionTable]]
  /\ storeAtSave = [p \in Procs |-> [q |-> questionTable, o |-> optionTable]]
  /\ backfilled = [p \in Procs |-> {}]
  /\ OthersAtRest

NextRepo ==
  \/ \E questions \in RepoBatches : RepoSaveMany(questions)
  \/ RepoSaveAgain
  \/ \E tags \in TagInputs, difficulty \in DifficultyInputs : RepoFindByTags(tags, difficulty)

SpecRepo == InitRepo /\ [][NextRepo]_vars

\* ------------------------------------------------------------ the quiz route
\* An error message is the list of its words, and String.prototype.includes
\* is computed on that list: a pattern is found where its words stand in the
\* message one after the other.

\* the longest list of questions in a parsed AI response
MaxRawQuestions == 2
\* how far below MIN_POOL_SIZE the pool of a routed request may be
RouteGap == 1

includes(message, pattern) ==
  \E i \in 0..(Len(message) - Len(pattern)) :
    SubSeq(message, i + 1, i + Len(pattern)) = pattern

\* GenkitQuestionsFlow.generate throws, whatever the message
AdapterError == "AI_RESPONSE_FORMAT_ERROR"

\* the words of the messages GenerateQuiz and the entities throw
Words(message) ==
  CASE message = "RoadmapId cannot be empty" -> <<"RoadmapId", "cannot", "be", "empty">>
    [] message = "RoadmapItemId cannot be empty" -> <<"RoadmapItemId", "cannot", "be", "empty">>
    [] message = "Roadmap not found" -> <<"Roadmap", "not", "found">>
    [] message = "Roadmap item not found" -> <<"Roadmap", "item", "not", "found">>
    [] message = ProjectItemError ->
         <<"Cannot", "generate", "quiz", "for", "PROJECT", "items.", "Use", "URL",
           "submission", "instead.">>
    [] message = "Question text cannot be empty" -> <<"Question", "text", "cannot", "be", "empty">>
    [] message = "QuestionOption text cannot be empty" ->
         <<"QuestionOption", "text", "cannot", "be", "empty">>
    [] message = "Question must have at least one tag" ->
         <<"Question", "must", "have", "at", "least", "one", "tag">>
    [] message = "Question difficulty cannot be empty" ->
         <<"Question", "difficulty", "cannot", "be", "empty">>
    [] message = PersistenceFailure -> <<"PersistenceFailure">>

\* the text of an AI response that is not JSON
RawTexts ==
  {<<"Sorry,", "no", "questions">>, <<"Invalid", "topic">>,
   <<"topic", "not", "found">>, <<"topic", "cannot", "be", "empty">>}

\* a question of a parsed AI response: n options, the first c of them correct
RawDraft(n, c) ==
  [text |-> <<"q">>,
   options |-> [k \in 1..n |-> [text |-> <<"o">>, isCorrect |-> k <= c]]]

RawDrafts == {RawDraft(n, c) : n \in {NumOptions - 1, NumOptions, NumOptions + 1}, c \in 0..2}

\* the AI response: a text that does not parse, or a parsed list of questions
RawResponses ==
  {[json |-> FALSE, text |-> t, questions |-> << >>] : t \in RawTexts}
    \cup {[json |-> TRUE, text |-> << >>, questions |-> qs] :
            qs \in UNION {[1..len -> RawDrafts] : len \in 0..MaxRawQuestions}}

\* the decimal numeral of a small count
Numeral(n) == CASE n = 0 -> "0" [] n = 1 -> "1" [] n = 2 -> "2" [] n = 3 -> "3"
                [] n = 4 -> "4" [] n = 5 -> "5" [] n = 6 -> "6"

CorrectCount(options) == Cardinality({k \in 1..Len(options) : options[k].isCorrect})

\* mutant: the adapter hands on whatever parses
QuestionsError_Lax(questions) == << >>

\* the validation loop of GenkitQuestionsFlow.generate: the first message thrown
RECURSIVE QuestionsError(_)
QuestionsError(questions) ==
  IF questions = << >> THEN << >>
  ELSE LET q == Head(questions)
       IN IF Len(q.options) # 4
            THEN <<"AI_RESPONSE_FORMAT_ERROR:", "Question", "must", "have", "exactly", "4",
                   "options.", "Got:", Numeral(Len(q.options))>>
          ELSE IF CorrectCount(q.options) # 1
            THEN <<"AI_RESPONSE_FORMAT_ERROR:", "Question", "must", "have", "exactly", "1",
                   "correct", "answer.", "Got:", Numeral(CorrectCount(q.options))>>
          ELSE QuestionsError(Tail(questions))

\* GenkitQuestionsFlow.generate: the message thrown for a response, << >> if none
GenkitError(raw) ==
  IF ~raw.json
    THEN <<"AI_RESPONSE_FORMAT_ERROR:", "Failed", "to", "parse", "AI", "response", "as",
           "JSON.", "Raw", "output:">> \o raw.text
  ELSE IF Len(raw.questions) = 0
    THEN <<"AI_RESPONSE_FORMAT_ERROR:", "No", "questions", "received", "from", "AI", "model">>
  ELSE QuestionsError(raw.questions)

\* the catch block of GET: the status and the code of the response
StatusOf(message) ==
  IF \/ includes(message, <<"cannot", "be", "empty">>)
     \/ includes(message, <<"Invalid">>)
     \/ includes(message, <<"not", "found">>)
    THEN IF includes(message, <<"not", "found">>)
           THEN [status |-> 404, code |-> "NOT_FOUND"]
           ELSE [status |-> 400, code |-> "VALIDATION_ERROR"]
  ELSE IF includes(message, <<"Cannot", "generate", "quiz", "for", "PROJECT">>)
    THEN [status |-> 400, code |-> "INVALID_ITEM_TYPE"]
  ELSE [status |-> 500, code |-> "INTERNAL_SERVER_ERROR"]

\* the request is handled by one call of execute
Handler == "p1"

restOfRoute == <<repoCall, heap, entity, client, update, statusVars>>

\* GET, lines 50-75: the query is validated and execute is called
Get(roadmapId, itemId) ==
  /\ http.stage = "idle"
  /\ IF Len(roadmapId) < 1
       THEN /\ http' = [http EXCEPT !.stage = "responded", !.status = 400,
                                    !.code = "VALIDATION_ERROR"]
            /\ UNCHANGED quizVars
       ELSE /\ http' = [http EXCEPT !.stage = "executing"]
            /\ Call(Handler, roadmapId, itemId)
  /\ UNCHANGED restOfRoute

\* generate, lines 44-79: the AI response is rejected
AdapterThrows(p, raw) ==
  /\ pc[p] = "generate"
  /\ GenkitError(raw) # << >>
  /\ Fail(p, AdapterError)
  /\ http' = [http EXCEPT !.raw = raw, !.thrown = GenkitError(raw)]
  /\ UNCHANGED <<questionTable, optionTable, roadmapStore, nextUuid, now, ctx, tx, result,
                 calls, storeAtCall, storeAtSave, backfilled>>
  /\ UNCHANGED restOfRoute

\* generate, line 76: the AI response is accepted and handed to the use case
AdapterReturns(p, m, bad, kind, c) ==
  /\ GenkitError([json |-> TRUE, text |-> << >>,
                  questions |-> GeneratedData(m, bad, kind, c)]) = << >>
  /\ Generate(p, m, bad, kind, c)
  /\ UNCHANGED otherVars

\* generate, lines 55-76: a parsed AI response passes the validation loop and
\* its questions are handed to the use case as they are
AdapterReturnsRaw(p, raw) ==
  /\ pc[p] = "generate"
  /\ GenkitError(raw) = << >>
  /\ GenerateFrom(p, raw.questions)
  /\ http' = [http EXCEPT !.raw = raw]
  /\ UNCHANGED restOfRoute

\* GET, lines 77-134: execute has returned or thrown and the response is sent
Respond(p) ==
  /\ http.stage = "executing"
  /\ pc[p] \in {"done", "failed"}
  /\ IF pc[p] = "done"
       THEN http' = [http EXCEPT !.stage = "responded", !.status = 200, !.code = "OK"]
       ELSE LET message == IF error[p] = AdapterError THEN http.thrown ELSE Words(error[p])
            IN http' = [http EXCEPT !.stage = "responded", !.thrown = message,
                                    !.status = StatusOf(message).status,
                                    !.code = StatusOf(message).code]
  /\ UNCHANGED quizVars
  /\ UNCHANGED restOfRoute

RoadmapIdQueries == RoadmapIdInputs \cup {Empty}
ItemIdSegments == (ItemIdInputs \ {Empty}) \cup {<<SP>>}

InitRoute ==
  /\ \E n \in (MIN_POOL_SIZE - RouteGap)..MIN_POOL_SIZE : QuizAtRest(n)
  /\ OthersAtRest

NextRoute ==
  \/ \E r \in RoadmapIdQueries, i \in ItemIdSegments : Get(r, i)
  \/ FindById(Handler) /\ UNCHANGED otherVars
  \/ FindByTags(Handler) /\ UNCHANGED otherVars
  \/ pc[Handler] = "generate" /\ \E raw \in RawResponses : AdapterThrows(Handler, raw)
  \/ /\ pc[Handler] = "generate"
     /\ \E m \in 1..NeededCount(Handler), bad \in {0, 1}, kind \in {"text", "option"} :
          AdapterReturns(Handler, m, bad, kind, 0)
  \/ \E raw \in RawResponses : AdapterReturnsRaw(Handler, raw)
  \/ TxUpsert(Handler) /\ UNCHANGED otherVars
  \/ TxDeleteMany(Handler) /\ UNCHANGED otherVars
  \/ TxCreateMany(Handler) /\ UNCHANGED otherVars
  \/ TxFail(Handler) /\ UNCHANGED otherVars
  \/ TxCommit(Handler) /\ UNCHANGED otherVars
  \/ ReadFails(Handler) /\ UNCHANGED otherVars
  \/ Respond(Handler)

SpecRoute == InitRoute /\ [][NextRoute]_vars

\* ------------------------------------- a Question entity in a caller's hands
\* Arrays are objects of a heap, named by their index in it, so that handing
\* out an array and handing out a copy of it differ.

\* how often the caller increments the usage, reads an accessor, and changes an
\* array an accessor returned
MaxIncrements == 2
MaxReads == 2
MaxMutations == 2

\* mutant: the accessor hands out the array the entity holds
spread_Alias(h, ref) == [heap |-> h, ref |-> ref]

\* [...array]: a new array holding the same elements
spread(h, ref) == [heap |-> Append(h, h[ref]), ref |-> Len(h) + 1]

\* the arguments a caller passes to Question.create and Question.reconstitute
TextArgs == {<<"q">>, Empty, <<SP, SP>>}
TagsArgs == {<< >>, <<TopicHooks, TopicOther>>}
DifficultyArgs == {Beginner, Empty, <<SP>>}
OptionsArgs ==
  {<< >>, <<QuestionOptionCreate(2, <<"o">>, TRUE), QuestionOptionCreate(3, <<"p">>, FALSE)>>}
UsageArgs == {0, 2}

\* the element a caller pushes on an array of the given kind
Pushed(kind) ==
  IF kind = "tags" THEN <<"z">> ELSE QuestionOptionCreate(9, <<"z">>, TRUE)

\* Array.prototype.push, pop and reverse on the elements of an array
Reverse(items) == [i \in 1..Len(items) |-> items[Len(items) + 1 - i]]
Mutated(array, op) ==
  CASE op = "push" -> [array EXCEPT !.items = Append(@, Pushed(array.kind))]
    [] op = "pop" -> [array EXCEPT !.items = IF @ = << >> THEN @
                                              ELSE SubSeq(@, 1, Len(@) - 1)]
    [] op = "reverse" -> [array EXCEPT !.items = Reverse(@)]

entityFrame == <<questionTable, optionTable, roadmapStore, nextUuid, pc, ctx, tx, result,
                 error, calls, storeAtCall, storeAtSave, backfilled, repoCall, http, update, statusVars>>

\* the two arrays of the arguments, then the entity holding them
Built(how, args, question) ==
  /\ heap' = <<[kind |-> "tags", items |-> args.tags],
               [kind |-> "options", items |-> args.options]>>
  /\ entity' = [question EXCEPT !.state = "live"]
  /\ client' = [NoClient EXCEPT !.built = how, !.given = args]

\* Question.create(id, text, tags, difficulty, options)
Create(text, tags, difficulty, options) ==
  /\ client.built = "none"
  /\ LET args == [text |-> text, tags |-> tags, difficulty |-> difficulty, usageCount |-> 0,
                  options |-> options, createdAt |-> now, updatedAt |-> now]
         question == QuestionCreate(1, text, 1, difficulty, 2, now)
     IN IF QuestionCreateError(text, tags, difficulty) # ""
          THEN /\ client' = [NoClient EXCEPT !.built = "create", !.given = args,
                                             !.error = QuestionCreateError(text, tags, difficulty)]
               /\ UNCHANGED <<heap, entity>>
          ELSE Built("create", args,
                     [state |-> "live", id |-> question.id, text |-> question.text,
                      tags |-> question.tags, difficulty |-> question.difficulty,
                      usageCount |-> question.usageCount, options |-> question.options,
                      createdAt |-> question.createdAt, updatedAt |-> question.updatedAt])
  /\ UNCHANGED <<now, entityFrame>>

\* Question.reconstitute(id, text, tags, difficulty, usageCount, options,
\* createdAt, updatedAt)
Reconstitute(text, tags, difficulty, usageCount, options, updatedAt) ==
  /\ client.built = "none"
  /\ LET args == [text |-> text, tags |-> tags, difficulty |-> difficulty,
                  usageCount |-> usageCount, options |-> options,
                  createdAt |-> 0, updatedAt |-> updatedAt]
         row == [id |-> 1, text |-> text, tags |-> 1, difficulty |-> difficulty,
                 usageCount |-> usageCount, createdAt |-> 0, updatedAt |-> updatedAt]
         question == toDomain(row, << >>)
     IN Built("reconstitute", args,
              [state |-> "live", id |-> question.id, text |-> question.text,
               tags |-> question.tags, difficulty |-> question.difficulty,
               usageCount |-> question.usageCount, options |-> 2,
               createdAt |-> question.createdAt, updatedAt |-> question.updatedAt])
  /\ UNCHANGED <<now, entityFrame>>

\* question.incrementUsage()
IncrementUsage ==
  /\ entity.state = "live"
  /\ client.increments < MaxIncrements
  /\ now' = now + 1
  /\ entity' = incrementUsage(entity, now')
  /\ client' = [client EXCEPT !.increments = @ + 1]
  /\ UNCHANGED <<heap, entityFrame>>

\* question.tags
GetTags ==
  /\ entity.state = "live"
  /\ client.reads < MaxReads
  /\ LET copy == spread(heap, entity.tags)
     IN /\ heap' = copy.heap
        /\ client' = [client EXCEPT !.held = @ \cup {copy.ref}, !.reads = @ + 1,
                        !.rereads = IF client.mutations > 0 THEN @ + 1 ELSE @,
                        !.lastTags = copy.heap[copy.ref].items]
  /\ UNCHANGED <<now, entity, entityFrame>>

\* question.options
GetOptions ==
  /\ entity.state = "live"
  /\ client.reads < MaxReads
  /\ LET copy == spread(heap, entity.options)
     IN /\ heap' = copy.heap
        /\ client' = [client EXCEPT !.held = @ \cup {copy.ref}, !.reads = @ + 1,
                        !.rereads = IF client.mutations > 0 THEN @ + 1 ELSE @,
                        !.lastOptions = copy.heap[copy.ref].items]
  /\ UNCHANGED <<now, entity, entityFrame>>

\* the caller pushes on, pops from or reverses an array an accessor returned
Mutate(ref, op) ==
  /\ ref \in client.held
  /\ client.mutations < MaxMutations
  /\ heap' = [heap EXCEPT ![ref] = Mutated(@, op)]
  /\ client' = [client EXCEPT !.mutations = @ + 1]
  /\ UNCHANGED <<now, entity, entityFrame>>

InitEntity ==
  /\ QuizAtRest(0)
  /\ OthersAtRest

NextEntity ==
  \/ \E text \in TextArgs, tags \in TagsArgs, difficulty \in DifficultyArgs,
        options \in OptionsArgs : Create(text, tags, difficulty, options)
  \/ \E text \in TextArgs \ {Empty}, tags \in TagsArgs, difficulty \in DifficultyArgs \ {<<SP>>},
        options \in OptionsArgs, usageCount \in UsageArgs :
       Reconstitute(text, tags, difficulty, usageCount, options, 1)
  \/ IncrementUsage
  \/ GetTags
  \/ GetOptions
  \/ \E ref \in client.held, op \in {"push", "pop", "reverse"} : Mutate(ref, op)

SpecEntity == InitEntity /\ [][NextEntity]_vars

\* ------------------------------------------- two execute calls at the same time
\* how far below MIN_POOL_SIZE the pool of the two calls may be
ConcGap == 1

\* the item both calls ask a quiz for
SharedItemId == SeedRoadmap.items[1].id

InitConc ==
  /\ \E n \in (MIN_POOL_SIZE - ConcGap)..(MIN_POOL_SIZE - 1) : QuizAtRest(n)
  /\ OthersAtRest

\* the two calls run whenever the event loop resumes either of them, up to the
\* point where the backfill of each is committed and its sample is drawn; the
\* generator delivers what it is asked for and no collaborator fails
NextConc ==
  \E p \in Procs :
    \/ Call(p, SeedRoadmap.id, SharedItemId) /\ UNCHANGED otherVars
    \/ FindById(p) /\ UNCHANGED otherVars
    \/ FindByTags(p) /\ UNCHANGED otherVars
    \/ /\ pc[p] = "generate"
       /\ Generate(p, NeededCount(p), 0, "text", 0)
       /\ UNCHANGED otherVars
    \/ pc[p] = "saveNew" /\ TxUpsert(p) /\ UNCHANGED otherVars
    \/ pc[p] = "saveNew" /\ TxDeleteMany(p) /\ UNCHANGED otherVars
    \/ pc[p] = "saveNew" /\ TxCreateMany(p) /\ UNCHANGED otherVars
    \/ pc[p] = "saveNew" /\ TxCommit(p) /\ UNCHANGED otherVars

SpecConc == InitConc /\ [][NextConc]_vars

\* ------------------------------------------ execute calls served side by side
\* the number of execute calls of one behaviour
MaxCalls == 3

\* a caller whose execute has returned calls execute again, lines 118-123
CallAgain(p, roadmapId, roadmapItemId) ==
  /\ pc[p] = "done"
  /\ RoadmapIdCreate(roadmapId) = ""
  /\ RoadmapItemIdCreate(roadmapItemId) = ""
  /\ now' = now + 1
  /\ ctx' = [ctx EXCEPT ![p] = [NoContext EXCEPT !.roadmapId = roadmapId,
                                                 !.itemId = roadmapItemId]]
  /\ storeAtCall' = [storeAtCall EXCEPT ![p] = [q |-> questionTable, o |-> optionTable]]
  /\ pc' = [pc EXCEPT ![p] = "findById"]
  /\ calls' = [calls EXCEPT ![p] = <<[op |-> "findById", arg |-> roadmapId]>>]
  /\ tx' = [tx EXCEPT ![p] = NoTx]
  /\ result' = [result EXCEPT ![p] = NoQuiz]
  /\ backfilled' = [backfilled EXCEPT ![p] = {}]
  /\ UNCHANGED <<questionTable, optionTable, roadmapStore, nextUuid, error, storeAtSave>>

\* saveMany, lines 29-62: the statements of the open transaction are issued one
\* after the other up to the last; none of them shows outside the
\* transaction before the commit
TxRun(p) ==
  /\ InSaveMany(p)
  /\ HasNextStatement(p)
  /\ tx' = [tx EXCEPT ![p].issued = Len(Statements(tx[p].questions))]
  /\ UNCHANGED <<questionTable, optionTable, roadmapStore, nextUuid, now, pc, ctx, result,
                 error, calls, storeAtCall, storeAtSave, backfilled>>

\* the execute calls made so far: the clock ticks once per call
CallsMade == now - 1

\* the pool of the item is full: no call backfills
InitServe ==
  /\ QuizAtRest(MIN_POOL_SIZE)
  /\ OthersAtRest

\* up to MaxCalls calls for the same item by two callers, each run to its
\* return whenever the event loop resumes it, a transaction from its first
\* statement to its last in one step; no collaborator fails
NextServe ==
  \E p \in Procs :
    \/ /\ CallsMade < MaxCalls
       /\ Call(p, SeedRoadmap.id, SharedItemId)
       /\ UNCHANGED otherVars
    \/ /\ CallsMade < MaxCalls
       /\ CallAgain(p, SeedRoadmap.id, SharedItemId)
       /\ UNCHANGED otherVars
    \/ FindById(p) /\ UNCHANGED otherVars
    \/ FindByTags(p) /\ UNCHANGED otherVars
    \/ TxRun(p) /\ UNCHANGED otherVars
    \/ TxCommit(p) /\ UNCHANGED otherVars

SpecServe == InitServe /\ [][NextServe]_vars

\* two calls for the same item on a short pool, one by each caller, each run
\* to its return; the generator delivers what it is asked for and no
\* collaborator fails
NextPair ==
  \E p \in Procs :
    \/ Call(p, SeedRoadmap.id, SharedItemId) /\ UNCHANGED otherVars
    \/ FindById(p) /\ UNCHANGED otherVars
    \/ FindByTags(p) /\ UNCHANGED otherVars
    \/ /\ pc[p] = "generate"
       /\ Generate(p, NeededCount(p), 0, "text", 0)
       /\ UNCHANGED otherVars
    \/ TxRun(p) /\ UNCHANGED otherVars
    \/ TxCommit(p) /\ UNCHANGED otherVars

SpecPair == InitConc /\ [][NextPair]_vars

\* the theory items of the stored roadmap
TheoryItemIds ==
  {SeedRoadmap.items[i].id : i \in {k \in 1..Len(SeedRoadmap.items) :
                                      SeedRoadmap.items[k].type = "theory"}}

\* one caller asks for a quiz for a theory item and, when it has got it, asks
\* again for the same item; the generator delivers what it is asked for and
\* no collaborator fails
NextReuse ==
  \/ \E itemId \in TheoryItemIds :
       Call(Handler, SeedRoadmap.id, itemId) /\ UNCHANGED otherVars
  \/ /\ CallsMade < MaxCalls
     /\ CallAgain(Handler, ctx[Handler].roadmapId, ctx[Handler].itemId)
     /\ UNCHANGED otherVars
  \/ FindById(Handler) /\ UNCHANGED otherVars
  \/ FindByTags(Handler) /\ UNCHANGED otherVars
  \/ /\ pc[Handler] = "generate"
     /\ Generate(Handler, NeededCount(Handler), 0, "text", 0)
     /\ UNCHANGED otherVars
  \/ TxRun(Handler) /\ UNCHANGED otherVars
  \/ TxCommit(Handler) /\ UNCHANGED otherVars

SpecReuse == InitConc /\ [][NextReuse]_vars

\* --------------------------------------------------------- the Roadmap aggregate
\* ECMAScript Numbers are IEEE 754 binary64 values. A positive one is written
\* [bits, exp]: a significand of SignificandBits binary digits, the first of
\* them 1, standing for the integer they spell times 2^exp. Division and
\* multiplication round to the nearest such value, ties to even.
SignificandBits == 53

\* the integer the first n of a list of binary digits spell
RECURSIVE BitsValue(_, _)
BitsValue(bits, n) == IF n = 0 THEN 0 ELSE 2 * BitsValue(bits, n - 1) + bits[n]

\* the binary digits of a positive integer
RECURSIVE BitsOf(_)
BitsOf(n) == IF n = 0 THEN << >> ELSE BitsOf(n \div 2) \o <<n % 2>>

\* a list of binary digits plus one; a list of ones turns into a longer list
PlusOne(bits) ==
  LET zeros == {i \in 1..Len(bits) : bits[i] = 0}
  IN IF zeros = {} THEN <<1>> \o [i \in 1..Len(bits) |-> 0]
     ELSE LET last == CHOOSE i \in zeros : \A j \in zeros : j <= i
          IN [i \in 1..Len(bits) |->
                IF i < last THEN bits[i] ELSE IF i = last THEN 1 ELSE 0]

\* round to nearest, ties to even: kept are the leading digits, guard is the
\* first digit dropped, sticky tells whether anything non-zero follows it
RoundToNearestEven(kept, guard, sticky, exp) ==
  IF guard = 1 /\ (sticky \/ kept[Len(kept)] = 1)
    THEN LET up == PlusOne(kept)
         IN IF Len(up) > Len(kept)
              THEN [bits |-> SubSeq(up, 1, Len(kept)), exp |-> exp + 1]
              ELSE [bits |-> up, exp |-> exp]
    ELSE [bits |-> kept, exp |-> exp]

\* what is left of r after i steps of the long division by d: r * 2^i mod d
RECURSIVE Remainder(_, _, _)
Remainder(r, d, i) == IF i = 0 THEN r ELSE (2 * Remainder(r, d, i - 1)) % d

\* the first n binary digits of r / d for 0 <= r < d, and the remainder left
LongDivision(r, d, n) ==
  [bits |-> [i \in 1..n |-> IF 2 * Remainder(r, d, i - 1) >= d THEN 1 ELSE 0],
   rem |-> Remainder(r, d, n)]

\* the number of binary places after which r / d, 0 < r < d, has its first 1
RECURSIVE FirstOne(_, _)
FirstOne(r, d) == IF 2 * r >= d THEN 1 ELSE 1 + FirstOne(2 * r, d)

\* the Number c / d for integers 0 < c <= d: the digits from the first 1 on,
\* one more than are kept, rounded
Divide(c, d) ==
  IF c = d
    THEN [bits |-> [i \in 1..SignificandBits |-> IF i = 1 THEN 1 ELSE 0],
          exp |-> 1 - SignificandBits]
  ELSE LET k == FirstOne(c, d)
           digits == LongDivision(Remainder(c, d, k - 1), d, SignificandBits + 1)
       IN RoundToNearestEven(SubSeq(digits.bits, 1, SignificandBits),
                             digits.bits[SignificandBits + 1], digits.rem # 0,
                             1 - k - SignificandBits)

\* the carry out of digit i when the integer bits spell is multiplied by m
RECURSIVE Carry(_, _, _)
Carry(bits, m, i) ==
  IF i > Len(bits) THEN 0 ELSE (bits[i] * m + Carry(bits, m, i + 1)) \div 2

\* the digits of the integer bits spell times a small integer m
TimesSmall(bits, m) ==
  BitsOf(Carry(bits, m, 1))
    \o [i \in 1..Len(bits) |-> (bits[i] * m + Carry(bits, m, i + 1)) % 2]

\* the Number x * m for a Number x > 0 and a small integer m > 0
Times(x, m) ==
  LET product == TimesSmall(x.bits, m)
      dropped == Len(product) - SignificandBits
  IN IF dropped = 0 THEN [bits |-> product, exp |-> x.exp]
     ELSE RoundToNearestEven(SubSeq(product, 1, SignificandBits),
                             product[SignificandBits + 1],
                             \E i \in (SignificandBits + 2)..Len(product) : product[i] = 1,
                             x.exp + dropped)

\* Math.round of a Number 0 < x < 2^31: the integer part, plus one if the
\* fraction is a half or more
MathRound(x) ==
  LET whole == SignificandBits + x.exp
  IN IF whole < 0 THEN 0
     ELSE BitsValue(x.bits, whole)
            + (IF whole < SignificandBits THEN x.bits[whole + 1] ELSE 0)

\* Roadmap.progress: Math.round((completed / this._items.length) * 100)
progress(items) ==
  LET completed == Cardinality({i \in 1..Len(items) : items[i].status = "completed"})
  IN IF Len(items) = 0 THEN 0
     ELSE IF completed = 0 THEN 0
     ELSE MathRound(Times(Divide(completed, Len(items)), 100))

\* ---------------------------------------------------- UpdateRoadmapItemStatus
MaxItems == 40
Statuses == {"pending", "in_progress", "completed"}
GoalId == <<"g">>

\* the id of the milestone at position n
ItemIdAt(n) == <<ToString(n)>>

\* a roadmap of t milestones as the repository holds it: the first c are
\* completed, the next w are in progress, the rest are pending
StoredRoadmap(t, c, w) ==
  [id |-> SeedRoadmap.id, goalId |-> GoalId, title |-> SeedRoadmap.title,
   items |-> [i \in 1..t |->
      [RoadmapItemOf(ItemIdAt(i), <<"M">>, i, "theory", TopicHooks, Beginner)
         EXCEPT !.status = IF i <= c THEN "completed"
                           ELSE IF i <= c + w THEN "in_progress" ELSE "pending"]],
   createdAt |-> 0, updatedAt |-> 0]

\* mutant: a completed milestone is never reopened
updateItemStatus_Forward(roadmap, itemId, status, at) ==
  LET found == {i \in 1..Len(roadmap.items) : roadmap.items[i].id = itemId}
  IN IF found = {} THEN [error |-> "RoadmapItem not found", roadmap |-> roadmap]
     ELSE LET first == CHOOSE i \in found : \A k \in found : i <= k
          IN [error |-> "",
              roadmap |-> [roadmap EXCEPT
                 !.items[first].status =
                    IF roadmap.items[first].status = "completed" THEN "completed" ELSE status,
                 !.updatedAt = at]]

\* Roadmap.updateItemStatus: the first item of that id takes the status, or
\* the call throws
updateItemStatus(roadmap, itemId, status, at) ==
  LET found == {i \in 1..Len(roadmap.items) : roadmap.items[i].id = itemId}
  IN IF found = {} THEN [error |-> "RoadmapItem not found", roadmap |-> roadmap]
     ELSE LET first == CHOOSE i \in found : \A k \in found : i <= k
          IN [error |-> "",
              roadmap |-> [roadmap EXCEPT !.items[first].status = status,
                                          !.updatedAt = at]]

\* the RoadmapDTO execute builds from the roadmap it holds
RoadmapDTOOf(roadmap) ==
  [id |-> roadmap.id, goalId |-> roadmap.goalId, title |-> roadmap.title,
   progress |-> progress(roadmap.items),
   items |-> [i \in 1..Len(roadmap.items) |->
      [id |-> roadmap.items[i].id, title |-> roadmap.items[i].title,
       description |-> roadmap.items[i].description, order |-> roadmap.items[i].order,
       status |-> roadmap.items[i].status]],
   createdAt |-> roadmap.createdAt, updatedAt |-> roadmap.updatedAt]

\* what a call of UpdateRoadmapItemStatus leaves alone
updateFrame == <<questionTable, optionTable, nextUuid, pc, ctx, tx, result, error, calls,
                 storeAtCall, storeAtSave, backfilled, repoCall, heap, entity, client, http,
                 statusVars>>

UpdateFails(message) == update' = [update EXCEPT !.stage = "failed", !.error = message]

\* execute, lines 22-25: the RoadmapId, then the lookup is issued
Execute(roadmapId, itemId, status) ==
  /\ update.stage = "idle"
  /\ now' = now + 1
  /\ update' = [NoUpdate EXCEPT
        !.roadmapId = roadmapId, !.itemId = itemId, !.status = status,
        !.stage = IF RoadmapIdCreate(roadmapId) # "" THEN "failed" ELSE "findById",
        !.error = RoadmapIdCreate(roadmapId)]
  /\ UNCHANGED <<roadmapStore, updateFrame>>

\* execute, lines 25-36: the roadmap arrives; the RoadmapItemId, the status
\* change on the roadmap held, and the save is issued
UpdateFindById ==
  /\ update.stage = "findById"
  /\ IF update.roadmapId \notin DOMAIN roadmapStore
       THEN UpdateFails("Roadmap not found")
     ELSE IF RoadmapItemIdCreate(update.itemId) # ""
       THEN UpdateFails(RoadmapItemIdCreate(update.itemId))
     ELSE LET roadmap == roadmapStore[update.roadmapId]
              changed == updateItemStatus(roadmap, update.itemId, update.status, now)
              found == {i \in 1..Len(roadmap.items) : roadmap.items[i].id = update.itemId}
          IN IF changed.error # ""
               THEN UpdateFails(changed.error)
             ELSE update' = [update EXCEPT
                    !.stage = "save", !.roadmap = changed.roadmap, !.saves = @ + 1,
                    !.was = roadmap.items[CHOOSE i \in found : \A k \in found : i <= k].status]
  /\ UNCHANGED <<roadmapStore, now, updateFrame>>

\* roadmapRepository.save resolves: the roadmap held replaces the stored one
UpdateSave ==
  /\ update.stage = "save"
  /\ roadmapStore' = [id \in DOMAIN roadmapStore \cup {update.roadmap.id} |->
                        IF id = update.roadmap.id THEN update.roadmap ELSE roadmapStore[id]]
  /\ update' = [update EXCEPT !.stage = "saved"]
  /\ UNCHANGED <<now, updateFrame>>

\* roadmapRepository.save rejects: execute throws what it threw
UpdateSaveFails ==
  /\ update.stage = "save"
  /\ UpdateFails(PersistenceFailure)
  /\ UNCHANGED <<roadmapStore, now, updateFrame>>

\* execute, lines 39-53: the RoadmapDTO is returned
UpdateReturn ==
  /\ update.stage = "saved"
  /\ update' = [update EXCEPT !.stage = "done", !.returned = RoadmapDTOOf(update.roadmap)]
  /\ UNCHANGED <<roadmapStore, now, updateFrame>>

\* Roadmap.addItem, then the roadmap is saved: one more pending milestone
AddItem ==
  /\ update.stage = "idle"
  /\ \E id \in DOMAIN roadmapStore :
       LET roadmap == roadmapStore[id]
           order == Len(roadmap.items) + 1
       IN /\ order <= MaxItems
          /\ roadmapStore' = [roadmapStore EXCEPT ![id] =
               [roadmap EXCEPT
                  !.items = Append(@, RoadmapItemOf(ItemIdAt(order), <<"M">>, order,
                                                    "theory", TopicHooks, Beginner)),
                  !.updatedAt = now]]
  /\ UNCHANGED <<update, now, updateFrame>>

UpdateItemIds == {ItemIdAt(1), ItemIdAt(MaxItems), <<SP>>}

\* one roadmap is stored: its first c milestones are completed, or none is
\* and the first is in progress
InitRoadmap ==
  /\ \E t \in 0..MaxItems : \E c \in 0..t : \E w \in 0..1 :
       /\ w = 1 => c = 0 /\ t > 0
       /\ roadmapStore = [id \in {SeedRoadmap.id} |-> StoredRoadmap(t, c, w)]
  /\ questionTable = SeedQuestionTable(0)
  /\ optionTable = SeedOptionTable(0)
  /\ nextUuid = (NumOptions + 1) * 3 + 1
  /\ now = 1
  /\ pc = [p \in Procs |-> "idle"]
  /\ ctx = [p \in Procs |-> NoContext]
  /\ tx = [p \in Procs |-> NoTx]
  /\ result = [p \in Procs |-> NoQuiz]
  /\ error = [p \in Procs |-> ""]
  /\ calls = [p \in Procs |-> << >>]
  /\ storeAtCall = [p \in Procs |-> [q |-> questionTable, o |-> optionTable]]
  /\ storeAtSave = [p \in Procs |-> [q |-> questionTable, o |-> optionTable]]
  /\ backfilled = [p \in Procs |-> {}]
  /\ OthersAtRest

NextRoadmap ==
  \/ \E roadmapId \in RoadmapIdInputs : \E itemId \in UpdateItemIds : \E status \in Statuses :
       Execute(roadmapId, itemId, status)
  \/ UpdateFindById
  \/ UpdateSave
  \/ UpdateSaveFails
  \/ UpdateReturn
  \/ AddItem

SpecRoadmap == InitRoadmap /\ [][NextRoadmap]_vars

\* ------------------- UpdateRoadmapItemStatus on the Prisma roadmap repository
\* RoadmapMapper: the status of the domain as the RoadmapItemStatus enum
STATUS_TO_PRISMA(status) ==
  CASE status = "pending" -> "PENDING"
    [] status = "in_progress" -> "IN_PROGRESS"
    [] status = "completed" -> "COMPLETED"

\* RoadmapMapper: STATUS_TO_DOMAIN[item.status] ?? "pending"
STATUS_TO_DOMAIN(status) ==
  CASE status = "PENDING" -> "pending"
    [] status = "IN_PROGRESS" -> "in_progress"
    [] status = "COMPLETED" -> "completed"
    [] OTHER -> "pending"

\* the item rows of a roadmap in ascending order of their order column
RECURSIVE OrderByOrder(_)
OrderByOrder(rows) ==
  IF rows = {} THEN << >>
  ELSE LET r == CHOOSE x \in rows : \A y \in rows : x.order <= y.order
       IN <<r>> \o OrderByOrder(rows \ {r})

\* RoadmapMapper.toDomain: each item is reconstituted from its id, title,
\* description, order and status; RoadmapItem.reconstitute gives the rest
\* its defaults
RoadmapToDomain(row, itemRows) ==
  [id |-> row.id, goalId |-> row.goalId, title |-> row.title,
   items |-> [i \in 1..Len(itemRows) |->
      [RoadmapItemOf(itemRows[i].id, itemRows[i].title, itemRows[i].order,
                     "theory", Empty, Beginner)
         EXCEPT !.description = itemRows[i].description,
                !.status = STATUS_TO_DOMAIN(itemRows[i].status)]],
   createdAt |-> row.createdAt, updatedAt |-> row.updatedAt]

\* RoadmapMapper.toPersistence
RoadmapToPersistence(roadmap) ==
  [id |-> roadmap.id, goalId |-> roadmap.goalId, title |-> roadmap.title,
   createdAt |-> roadmap.createdAt, updatedAt |-> roadmap.updatedAt,
   items |-> [i \in 1..Len(roadmap.items) |->
      [id |-> roadmap.items[i].id, title |-> roadmap.items[i].title,
       description |-> roadmap.items[i].description, order |-> roadmap.items[i].order,
       status |-> STATUS_TO_PRISMA(roadmap.items[i].status)]]]

\* PrismaRoadmapRepository.findById: findUnique with the items by order
RoadmapFindById(rT, iT, id) ==
  IF id \notin DOMAIN rT THEN NoRoadmap
  ELSE RoadmapToDomain(rT[id], OrderByOrder({r \in iT : r.roadmapId = id}))

\* tx.roadmap.upsert: create the row, or update title and updatedAt
RoadmapUpsert(rT, data) ==
  IF data.id \in DOMAIN rT
    THEN [rT EXCEPT ![data.id].title = data.title, ![data.id].updatedAt = data.updatedAt]
    ELSE [id \in DOMAIN rT \cup {data.id} |->
            IF id = data.id
              THEN [id |-> data.id, goalId |-> data.goalId, title |-> data.title,
                    createdAt |-> data.createdAt, updatedAt |-> data.updatedAt]
              ELSE rT[id]]

\* tx.roadmapItem.createMany: the columns the data does not name take the
\* defaults of the table (type THEORY, topic '', difficulty 'beginner',
\* submissionUrl NULL)
RoadmapItemCreateMany(iT, data) ==
  iT \cup {[id |-> data.items[i].id, roadmapId |-> data.id,
            title |-> data.items[i].title, description |-> data.items[i].description,
            order |-> data.items[i].order, status |-> data.items[i].status,
            type |-> "THEORY", topic |-> Empty, difficulty |-> Beginner,
            submissionUrl |-> "null"] : i \in 1..Len(data.items)}

\* QuizAttempt_roadmapItemId_fkey, ON DELETE CASCADE: the attempts that
\* reference a deleted item row go with it
CascadeAttempts(aT, deleted) ==
  {a \in aT : \A r \in deleted : a.roadmapItemId # r.id}

\* PrismaRoadmapRepository.save: the upsert, the deleteMany of the roadmap's
\* items and the createMany, committed as one transaction
RoadmapSave(rT, iT, aT, roadmap) ==
  LET data == RoadmapToPersistence(roadmap)
      deleted == {r \in iT : r.roadmapId = data.id}
  IN [r |-> RoadmapUpsert(rT, data),
      i |-> RoadmapItemCreateMany(iT \ deleted, data),
      a |-> CascadeAttempts(aT, deleted)]

\* what a call served on the roadmap tables leaves alone
statusFrame == <<quizVars, repoCall, heap, entity, client, http, update>>

StatusFails(p, message) ==
  updates' = [updates EXCEPT ![p].stage = "failed", ![p].error = message]

\* execute, lines 22-25: the RoadmapId, then the lookup is issued
StatusExecute(p, roadmapId, itemId, status) ==
  /\ updates[p].stage = "idle"
  /\ updates' = [updates EXCEPT ![p] = [NoStatusCall EXCEPT
        !.roadmapId = roadmapId, !.itemId = itemId, !.status = status,
        !.stage = IF RoadmapIdCreate(roadmapId) # "" THEN "failed" ELSE "findById",
        !.error = RoadmapIdCreate(roadmapId),
        !.before = [r |-> roadmapTable, i |-> roadmapItemTable, a |-> quizAttemptTable]]]
  /\ UNCHANGED <<roadmapTable, roadmapItemTable, quizAttemptTable, statusFrame>>

\* execute, lines 25-36: the roadmap arrives as the tables hold it now; the
\* RoadmapItemId, the status change on the roadmap held (its new Date() is
\* later than the stored updatedAt), and the save is issued
StatusFindById(p) ==
  /\ updates[p].stage = "findById"
  /\ LET roadmap == RoadmapFindById(roadmapTable, roadmapItemTable, updates[p].roadmapId)
         changed == updateItemStatus(roadmap, updates[p].itemId, updates[p].status,
                                     roadmap.updatedAt + 1)
     IN IF roadmap = NoRoadmap
          THEN StatusFails(p, "Roadmap not found")
        ELSE IF RoadmapItemIdCreate(updates[p].itemId) # ""
          THEN StatusFails(p, RoadmapItemIdCreate(updates[p].itemId))
        ELSE IF changed.error # ""
          THEN StatusFails(p, changed.error)
        ELSE updates' = [updates EXCEPT ![p].stage = "save", ![p].roadmap = changed.roadmap]
  /\ UNCHANGED <<roadmapTable, roadmapItemTable, quizAttemptTable, statusFrame>>

\* execute, lines 36-53: the transaction of save commits and the RoadmapDTO
\* of the roadmap held is returned
StatusSave(p) ==
  /\ updates[p].stage = "save"
  /\ LET after == RoadmapSave(roadmapTable, roadmapItemTable, quizAttemptTable,
                              updates[p].roadmap)
     IN /\ roadmapTable' = after.r
        /\ roadmapItemTable' = after.i
        /\ quizAttemptTable' = after.a
  /\ updates' = [updates EXCEPT ![p].stage = "done",
                                ![p].returned = RoadmapDTOOf(updates[p].roadmap)]
  /\ UNCHANGED statusFrame

\* the transaction of save is rolled back: execute throws what save threw
StatusSaveFails(p) ==
  /\ updates[p].stage = "save"
  /\ StatusFails(p, PersistenceFailure)
  /\ UNCHANGED <<roadmapTable, roadmapItemTable, quizAttemptTable, statusFrame>>

\* an item row of the stored roadmap
RoadmapItemRow(id, order, status, type, topic, submissionUrl) ==
  [id |-> id, roadmapId |-> SeedRoadmap.id, title |-> <<"M">>, description |-> <<"d">>,
   order |-> order, status |-> status, type |-> type, topic |-> topic,
   difficulty |-> Beginner, submissionUrl |-> submissionUrl]

\* the status column of the item at position i when the first c are completed
\* and the next is in progress
SeedStatus(i, c) ==
  IF i <= c THEN "COMPLETED" ELSE IF i = c + 1 THEN "IN_PROGRESS" ELSE "PENDING"

\* one roadmap is stored, with a theory item, a project item that has a
\* submission, and a theory item without a topic; a quiz was attempted on
\* each of the theory items. Both callers are idle.
InitStatus ==
  /\ QuizAtRest(0)
  /\ repoCall = NoRepoCall
  /\ heap = NoHeap
  /\ entity = NoEntity
  /\ client = NoClient
  /\ http = NoHttp
  /\ update = NoUpdate
  /\ roadmapTable = [id \in {SeedRoadmap.id} |->
       [id |-> SeedRoadmap.id, goalId |-> GoalId, title |-> SeedRoadmap.title,
        createdAt |-> 0, updatedAt |-> 0]]
  /\ \E c \in 0..3 :
       roadmapItemTable =
         {RoadmapItemRow(ItemIdAt(1), 1, SeedStatus(1, c), "THEORY", TopicHooks, "null"),
          RoadmapItemRow(ItemIdAt(2), 2, SeedStatus(2, c), "PROJECT", TopicHooks, <<"u">>),
          RoadmapItemRow(ItemIdAt(3), 3, SeedStatus(3, c), "THEORY", Empty, "null")}
  /\ quizAttemptTable =
       {[id |-> <<"a">>, userId |-> <<"u">>, roadmapItemId |-> ItemIdAt(1),
         score |-> 80, passed |-> TRUE],
        [id |-> <<"b">>, userId |-> <<"u">>, roadmapItemId |-> ItemIdAt(3),
         score |-> 40, passed |-> FALSE]}
  /\ updates = [p \in Procs |-> NoStatusCall]

StatusRoadmapIds == {SeedRoadmap.id, <<"x">>, <<SP>>}
StatusItemIds == {ItemIdAt(1), ItemIdAt(2), ItemIdAt(3), ItemIdAt(9), <<SP>>}

\* each of the two callers makes one call; the calls overlap in any way
NextStatus ==
  \E p \in Procs :
    \/ \E roadmapId \in StatusRoadmapIds, itemId \in StatusItemIds, status \in Statuses :
         StatusExecute(p, roadmapId, itemId, status)
    \/ StatusFindById(p)
    \/ StatusSave(p)
    \/ StatusSaveFails(p)

SpecStatus == InitStatus /\ [][NextStatus]_vars

\* ===================================================================== claims
CallsOf(p, op) == {i \in 1..Len(calls[p]) : calls[p][i].op = op}
PoolCalls(p) ==
  {i \in 1..Len(calls[p]) : calls[p][i].op \in {"findByTags", "generate", "saveMany"}}
StoreIs(snapshot) == questionTable = snapshot.q /\ optionTable = snapshot.o
Blank(value) == Len(Trim(value)) = 0
IdsOf(questions) == {questions[i].id : i \in 1..Len(questions)}
OptionSet(question) == {question.options[k] : k \in 1..Len(question.options)}

\* the same questions with every correctness flag inverted
FlipCorrect(questions) ==
  [i \in 1..Len(questions) |->
     [id |-> questions[i].id, text |-> questions[i].text, tags |-> questions[i].tags,
      difficulty |-> questions[i].difficulty, usageCount |-> questions[i].usageCount,
      options |-> [k \in 1..Len(questions[i].options) |->
                     [id |-> questions[i].options[k].id,
                      text |-> questions[i].options[k].text,
                      isCorrect |-> ~questions[i].options[k].isCorrect]],
      createdAt |-> questions[i].createdAt, updatedAt |-> questions[i].updatedAt]]

\* C1: every option of a returned QuizDTO carries id and text and nothing else,
\* and the DTO is the one an execute returns that starts from the same pool,
\* makes the same random draws and differs only in the correctness flags.
C1_NoLeakage ==
  \A p \in Procs : pc[p] = "done" =>
    /\ DOMAIN result[p] = {"roadmapItemId", "title", "difficulty", "questions"}
    /\ \A i \in 1..Len(result[p].questions) :
         /\ DOMAIN result[p].questions[i] = {"id", "text", "options"}
         /\ \A k \in 1..Len(result[p].questions[i].options) :
              DOMAIN result[p].questions[i].options[k] = {"id", "text"}
    /\ LET sample == selectRandomQuestions(FlipCorrect(ctx[p].allQuestions), QUIZ_SIZE,
                                           ctx[p].draws)
       IN result[p] = QuizDTOOf(ctx[p].item,
                                [i \in 1..Len(sample) |-> incrementUsage(sample[i], now)])

C1_Witness ==
  \E p \in Procs :
    /\ pc[p] = "done"
    /\ Len(result[p].questions) = QUIZ_SIZE
    /\ \A i \in 1..Len(result[p].questions) :
         Len(result[p].questions[i].options) = NumOptions

\* the item the identifiers of the call of p name is a project item
TargetIsProject(p) ==
  /\ ctx[p].roadmapId \in DOMAIN roadmapStore
  /\ \E i \in 1..Len(roadmapStore[ctx[p].roadmapId].items) :
       /\ roadmapStore[ctx[p].roadmapId].items[i].id = ctx[p].itemId
       /\ roadmapStore[ctx[p].roadmapId].items[i].type = "project"

\* C2: an execute on a project item never gets past the eligibility gate: once
\* the roadmap lookup has answered it has failed with the ineligible-type
\* error, findByTags, generate and saveMany are never invoked and the question
\* store is as it was at the call.
C2_ProjectGate ==
  \A p \in Procs : TargetIsProject(p) =>
    /\ pc[p] \in {"findById", "failed"}
    /\ PoolCalls(p) = {}
    /\ StoreIs(storeAtCall[p])
    /\ (pc[p] = "failed" /\ error[p] # PersistenceFailure) => error[p] = ProjectItemError

C2_Witness ==
  \E p \in Procs :
    /\ TargetIsProject(p)
    /\ ctx[p].item.type = "project"
    /\ pc[p] = "failed"
    /\ error[p] = ProjectItemError

\* C3: once findByTags has returned n questions, the generator has been invoked
\* exactly once with count = 10 - n if n < 10, and is never invoked if n >= 10.
C3_BackfillThreshold ==
  \A p \in Procs : ctx[p].poolSize >= 0 =>
    /\ ctx[p].poolSize =
         Len(findByTags(storeAtCall[p].q, storeAtCall[p].o, ctx[p].tags,
                        ctx[p].item.difficulty))
    /\ IF ctx[p].poolSize < 10
         THEN /\ Cardinality(CallsOf(p, "generate")) = 1
              /\ \A i \in CallsOf(p, "generate") :
                   calls[p][i].arg.count = 10 - ctx[p].poolSize
         ELSE CallsOf(p, "generate") = {}

C3_Witness ==
  \E p \in Procs :
    /\ ctx[p].poolSize = 3
    /\ \E i \in CallsOf(p, "generate") : calls[p][i].arg.count = 7
    /\ pc[p] = "done"

\* C4: a returned quiz holds min(5, pool found + questions created) questions
\* and no question id twice.
C4_SampleBound ==
  \A p \in Procs : pc[p] = "done" =>
    /\ Len(result[p].questions) = Min(5, ctx[p].poolSize + Len(ctx[p].newQuestions))
    /\ \A i, k \in 1..Len(result[p].questions) :
         result[p].questions[i].id = result[p].questions[k].id => i = k

C4_Witness ==
  \E p \in Procs :
    /\ pc[p] = "done"
    /\ ctx[p].poolSize >= 1
    /\ Len(ctx[p].newQuestions) >= 1
    /\ ctx[p].poolSize + Len(ctx[p].newQuestions) > 5
    /\ Len(result[p].questions) = 5

\* the usage count stored for an id in a snapshot, 0 for an id not stored
UsageIn(qT, id) == IF id \in DOMAIN qT THEN qT[id].usageCount ELSE 0

\* C5: every question of a returned quiz has a stored usageCount at the return
\* that is greater than the one stored when execute was called (0 if it was
\* generated during the call).
C5_UsageMonotone ==
  \A p \in Procs : pc[p] = "done" =>
    \A i \in 1..Len(result[p].questions) :
      /\ result[p].questions[i].id \in DOMAIN questionTable
      /\ UsageIn(questionTable, result[p].questions[i].id)
           > UsageIn(storeAtCall[p].q, result[p].questions[i].id)

C5_Witness ==
  \E p \in Procs :
    /\ pc[p] = "done"
    /\ \E i \in 1..Len(result[p].questions) :
         /\ result[p].questions[i].id \in DOMAIN storeAtCall[p].q
         /\ storeAtCall[p].q[result[p].questions[i].id].usageCount >= 1
    /\ \E i \in 1..Len(result[p].questions) :
         result[p].questions[i].id \notin DOMAIN storeAtCall[p].q

\* C6: a generated question is a sampling candidate, has its usage incremented
\* or has an incremented usage stored only after the backfill saveMany has
\* committed it, and until the save of the sample commits it is stored with
\* usageCount 0.
C6_PersistBeforeUse ==
  \A p \in Procs : \A i \in 1..Len(ctx[p].newQuestions) :
    LET id == ctx[p].newQuestions[i].id
    IN /\ id \in IdsOf(ctx[p].allQuestions) =>
            id \in backfilled[p] /\ id \in DOMAIN questionTable
       /\ id \in IdsOf(ctx[p].selectedQuestions) =>
            id \in backfilled[p] /\ id \in DOMAIN questionTable
       /\ (id \in DOMAIN questionTable /\ questionTable[id].usageCount > 0) =>
            id \in backfilled[p]
       /\ (pc[p] = "saveUsage" /\ id \in DOMAIN questionTable) =>
            questionTable[id].usageCount = 0

C6_Witness ==
  \E p \in Procs :
    /\ pc[p] = "done"
    /\ \E i \in 1..Len(ctx[p].newQuestions) :
         /\ ctx[p].newQuestions[i].id \in backfilled[p]
         /\ ctx[p].newQuestions[i].id \in IdsOf(ctx[p].selectedQuestions)
         /\ questionTable[ctx[p].newQuestions[i].id].usageCount = 1

\* the call of p has failed, and not because a repository or the store failed
Answered(p) == pc[p] = "failed" /\ error[p] # PersistenceFailure

RoadmapResolves(p) == ctx[p].roadmapId \in DOMAIN roadmapStore
ItemResolves(p) ==
  /\ RoadmapResolves(p)
  /\ \E i \in 1..Len(roadmapStore[ctx[p].roadmapId].items) :
       roadmapStore[ctx[p].roadmapId].items[i].id = ctx[p].itemId

\* C7 as stated: whenever roadmapId does not resolve execute throws "Roadmap
\* not found", whenever the roadmap resolves without the item it throws
\* "Roadmap item not found", and there is no pool access in either case.
C7_AsStated ==
  \A p \in Procs : Answered(p) =>
    /\ ~RoadmapResolves(p) => error[p] = "Roadmap not found" /\ PoolCalls(p) = {}
    /\ (RoadmapResolves(p) /\ ~ItemResolves(p)) =>
         error[p] = "Roadmap item not found" /\ PoolCalls(p) = {}

\* C7 amended: with a roadmapId and an itemId that are not blank, an unresolved
\* roadmapId throws "Roadmap not found" and an item missing from the resolved
\* roadmap throws "Roadmap item not found"; a blank roadmapId or itemId is
\* rejected with "... cannot be empty" before the roadmap is looked up; none of
\* these calls reaches findByTags, generate or saveMany.
C7_ResolutionFirst ==
  \A p \in Procs : pc[p] # "idle" =>
    /\ Blank(ctx[p].roadmapId) =>
         /\ pc[p] = "failed" /\ error[p] = "RoadmapId cannot be empty"
         /\ calls[p] = << >>
    /\ (~Blank(ctx[p].roadmapId) /\ Blank(ctx[p].itemId)) =>
         /\ pc[p] = "failed" /\ error[p] = "RoadmapItemId cannot be empty"
         /\ calls[p] = << >>
    /\ (~Blank(ctx[p].roadmapId) /\ ~Blank(ctx[p].itemId) /\ ~ItemResolves(p)) =>
         /\ pc[p] \in {"findById", "failed"}
         /\ PoolCalls(p) = {}
         /\ StoreIs(storeAtCall[p])
         /\ Answered(p) =>
              error[p] = IF RoadmapResolves(p) THEN "Roadmap item not found"
                         ELSE "Roadmap not found"

C7_Witness ==
  \E p \in Procs :
    /\ Answered(p)
    /\ ~Blank(ctx[p].roadmapId) /\ ~Blank(ctx[p].itemId)
    /\ ~RoadmapResolves(p)
    /\ error[p] = "Roadmap not found"
    /\ Len(calls[p]) = 1

GenerationErrors ==
  {GeneratorError, "Question text cannot be empty", "QuestionOption text cannot be empty"}

\* C8: when the combined pool holds k < 5 questions, the sample is the whole
\* combined pool, each question once; nothing but a failing store keeps the
\* call from returning it.
C8_SmallPool ==
  \A p \in Procs :
    LET k == ctx[p].poolSize + Len(ctx[p].newQuestions)
    IN (ctx[p].poolSize >= 0 /\ k < 5) =>
         /\ pc[p] \in {"saveUsage", "done"} =>
              /\ Len(ctx[p].selectedQuestions) = k
              /\ IdsOf(ctx[p].selectedQuestions)
                   = IdsOf(ctx[p].existingQuestions) \cup IdsOf(ctx[p].newQuestions)
              /\ Cardinality(IdsOf(ctx[p].selectedQuestions)) = k
         /\ pc[p] = "done" =>
              [i \in 1..Len(result[p].questions) |-> result[p].questions[i].id]
                = [i \in 1..k |-> ctx[p].selectedQuestions[i].id]
         /\ (pc[p] = "failed" /\ error[p] \notin GenerationErrors) =>
              error[p] = PersistenceFailure

C8_Witness ==
  \E p \in Procs :
    /\ pc[p] = "done"
    /\ ctx[p].poolSize = 1
    /\ Len(ctx[p].newQuestions) = 1
    /\ Len(result[p].questions) = 2

\* C9: a call that fails at the generator or at a draft ends with that error,
\* has called generate once and saveMany never, returns no quiz and leaves the
\* store as it was; no draft with a blank text or a blank option text is ever
\* built into a question, and generate is never called twice.
C9_GenerationFailure ==
  \A p \in Procs :
    /\ (pc[p] = "failed" /\ error[p] \in GenerationErrors) =>
         /\ Cardinality(CallsOf(p, "generate")) = 1
         /\ CallsOf(p, "saveMany") = {}
         /\ tx[p].state = "none"
         /\ result[p] = NoQuiz
         /\ StoreIs(storeAtCall[p])
    /\ \A i \in 1..Len(ctx[p].newQuestions) :
         /\ ~Blank(ctx[p].newQuestions[i].text)
         /\ \A o \in OptionSet(ctx[p].newQuestions[i]) : ~Blank(o.text)
    /\ \A id \in DOMAIN questionTable :
         \A o \in optionTable : o.questionId = id => ~Blank(o.text) /\ ~Blank(questionTable[id].text)
    /\ Cardinality(CallsOf(p, "generate")) <= 1

C9_Witness ==
  \E p \in Procs :
    /\ pc[p] = "failed"
    /\ error[p] = "QuestionOption text cannot be empty"
    /\ ctx[p].poolSize >= 5
    /\ Cardinality(CallsOf(p, "generate")) = 1

\* a question is stored exactly as given: its columns and its option set
StoredAsGiven(qT, oT, question) ==
  /\ question.id \in DOMAIN qT
  /\ qT[question.id].text = question.text
  /\ qT[question.id].tags = question.tags
  /\ qT[question.id].difficulty = question.difficulty
  /\ qT[question.id].usageCount = question.usageCount
  /\ qT[question.id].updatedAt = question.updatedAt
  /\ {o \in oT : o.questionId = question.id}
       = {[id |-> o.id, questionId |-> question.id, text |-> o.text,
           isCorrect |-> o.isCorrect] : o \in OptionSet(question)}

\* C10: while a saveMany is open and after it has failed, the store is exactly
\* as it was when saveMany was called; after it has committed, every question
\* of the list is stored with its full option set.
C10_SaveManyAtomic ==
  \A p \in Procs :
    /\ tx[p].state \in {"open", "rolledBack"} => StoreIs(storeAtSave[p])
    /\ tx[p].state = "committed" =>
         \A i \in 1..Len(tx[p].questions) :
           StoredAsGiven(questionTable, optionTable, tx[p].questions[i])
    /\ pc[p] = "saveUsage" =>
         \A i \in 1..Len(ctx[p].newQuestions) :
           StoredAsGiven(storeAtSave[p].q, storeAtSave[p].o, ctx[p].newQuestions[i])

C10_Witness ==
  \E p \in Procs :
    /\ tx[p].state = "rolledBack"
    /\ Len(tx[p].questions) >= 2
    /\ tx[p].issued = 4
    /\ pc[p] = "failed"

\* the form of the question id that comes last in a list
LastGiven(questions, id) ==
  questions[CHOOSE i \in 1..Len(questions) :
              /\ questions[i].id = id
              /\ \A k \in (i + 1)..Len(questions) : questions[k].id # id]

FirstGiven(questions, id) ==
  questions[CHOOSE i \in 1..Len(questions) :
              /\ questions[i].id = id
              /\ \A k \in 1..(i - 1) : questions[k].id # id]

\* C11: a second saveMany(qs) leaves the store exactly as the first one left
\* it. After a saveMany that returned, every question of qs is stored with the
\* columns and exactly the option set of its (last) given form, none of its
\* earlier options remaining; createdAt stays the one of the first insert; the
\* questions not in qs are untouched. A saveMany that throws changes nothing.
C11_IdempotentUpsert ==
  repoCall.op = "saveMany" =>
    /\ repoCall.times = 2 => StoreIs(repoCall.once)
    /\ ~repoCall.ok => StoreIs(repoCall.before)
    /\ repoCall.ok =>
         /\ \A id \in IdsOf(repoCall.questions) :
              /\ StoredAsGiven(questionTable, optionTable, LastGiven(repoCall.questions, id))
              /\ questionTable[id].createdAt =
                   IF id \in DOMAIN repoCall.before.q THEN repoCall.before.q[id].createdAt
                   ELSE FirstGiven(repoCall.questions, id).createdAt
         /\ DOMAIN questionTable = DOMAIN repoCall.before.q \cup IdsOf(repoCall.questions)
         /\ \A id \in DOMAIN repoCall.before.q \ IdsOf(repoCall.questions) :
              /\ questionTable[id] = repoCall.before.q[id]
              /\ {o \in optionTable : o.questionId = id}
                   = {o \in repoCall.before.o : o.questionId = id}

C11_Witness ==
  /\ repoCall.op = "saveMany"
  /\ repoCall.times = 2
  /\ repoCall.ok
  /\ Len(repoCall.questions) = 2
  /\ repoCall.questions[1] = RepoQuestion(StoredId, "bare")
  /\ repoCall.questions[2].id = FreshId
  /\ Cardinality({o \in repoCall.before.o : o.questionId = StoredId}) = NumOptions
  /\ {o \in optionTable : o.questionId = StoredId} = {}

TagSet(tags) == {tags[i] : i \in 1..Len(tags)}

\* C12: findByTags(tags, difficulty) returns each stored question that shares a
\* tag with tags and has exactly the given difficulty, once, with its stored
\* columns and options, and no other question; the list is in ascending order
\* of usageCount; for an empty tags it is empty.
C12_FindByTags ==
  repoCall.op = "findByTags" =>
    LET found == repoCall.result
    IN /\ IdsOf(found) = {id \in DOMAIN questionTable :
                             /\ TagSet(questionTable[id].tags) \cap TagSet(repoCall.tags) # {}
                             /\ questionTable[id].difficulty = repoCall.difficulty}
       /\ Cardinality(IdsOf(found)) = Len(found)
       /\ \A i \in 1..Len(found) : StoredAsGiven(questionTable, optionTable, found[i])
       /\ \A i \in 1..(Len(found) - 1) : found[i].usageCount <= found[i + 1].usageCount
       /\ repoCall.tags = << >> => found = << >>

C12_Witness ==
  /\ repoCall.op = "findByTags"
  /\ repoCall.tags = <<TopicOther, TopicHooks>>
  /\ repoCall.difficulty = Beginner
  /\ Len(repoCall.result) >= 3
  /\ repoCall.result[1].usageCount < repoCall.result[Len(repoCall.result)].usageCount
  /\ \E id \in DOMAIN questionTable :
       /\ questionTable[id].difficulty = Advanced
       /\ TopicHooks \in TagSet(questionTable[id].tags)

\* C13 as stated: a failed execute is answered 404 for a roadmap or an item not
\* found, 400 for an ineligible item type, 500 for an AI response the generator
\* adapter rejects, and 400 for every other validation failure.
C13_AsStated ==
  (http.stage = "responded" /\ pc[Handler] = "failed" /\ error[Handler] # PersistenceFailure) =>
    http.status = CASE error[Handler] \in {"Roadmap not found", "Roadmap item not found"} -> 404
                    [] error[Handler] = ProjectItemError -> 400
                    [] error[Handler] = AdapterError -> 500
                    [] OTHER -> 400

\* a string of no characters or of spaces only
Whitespace(value) == \A i \in 1..Len(value) : value[i] = SP

\* the entity holds the columns it was built from
HoldsGiven ==
  /\ entity.state = "live"
  /\ entity.text = client.given.text
  /\ entity.difficulty = client.given.difficulty
  /\ entity.createdAt = client.given.createdAt
  /\ heap[entity.tags].items = client.given.tags
  /\ heap[entity.options].items = client.given.options

\* C14: Question.create throws exactly when the text is empty or whitespace,
\* the tags are empty or the difficulty is empty or whitespace, and builds no
\* question then; otherwise the question it returns has usageCount 0 and
\* createdAt = updatedAt. Question.reconstitute never throws and builds the
\* question from whatever it is given.
C14_CreateValidates ==
  /\ client.built = "create" =>
       LET invalid == \/ Whitespace(client.given.text)
                      \/ Len(client.given.tags) = 0
                      \/ Whitespace(client.given.difficulty)
       IN /\ invalid <=> client.error # ""
          /\ invalid => entity.state = "none"
          /\ Whitespace(client.given.text) => client.error = "Question text cannot be empty"
          /\ (~Whitespace(client.given.text) /\ Len(client.given.tags) = 0) =>
               client.error = "Question must have at least one tag"
          /\ ~invalid => HoldsGiven
          /\ (~invalid /\ client.increments = 0) =>
               entity.usageCount = 0 /\ entity.createdAt = entity.updatedAt
  /\ client.built = "reconstitute" =>
       /\ client.error = ""
       /\ HoldsGiven
       /\ client.increments = 0 =>
            /\ entity.usageCount = client.given.usageCount
            /\ entity.updatedAt = client.given.updatedAt

C14_Witness ==
  /\ client.built = "create"
  /\ client.error = "Question must have at least one tag"
  /\ ~Whitespace(client.given.text)
  /\ ~Whitespace(client.given.difficulty)
  /\ entity.state = "none"

\* C15: the usageCount of an entity is the one it was built with (0 for
\* create) plus the number of incrementUsage calls made on it, whatever else
\* was done with the entity, and is never negative.
C15_UsageCount ==
  entity.state = "live" =>
    /\ entity.usageCount =
         (IF client.built = "create" THEN 0 ELSE client.given.usageCount) + client.increments
    /\ entity.usageCount >= 0
    /\ client.increments > 0 => entity.updatedAt = now

C15_Witness ==
  /\ entity.state = "live"
  /\ client.built = "create"
  /\ client.increments = 2
  /\ entity.usageCount = 2
  /\ client.reads > 0
  /\ client.mutations > 0

\* C16: whatever the caller does to the arrays the tags and options accessors
\* returned, the entity holds the tags and options it was built with, no
\* returned array is the one the entity holds, and every accessor call
\* returns them unchanged.
C16_DefensiveCopies ==
  entity.state = "live" =>
    /\ heap[entity.tags].items = client.given.tags
    /\ heap[entity.options].items = client.given.options
    /\ entity.tags \notin client.held /\ entity.options \notin client.held
    /\ \A ref \in client.held :
         (client.mutations = 0 /\ heap[ref].kind = "tags") =>
           heap[ref].items = client.given.tags
    /\ client.lastTags \in {<< >>, client.given.tags}
    /\ client.lastOptions \in {<< >>, client.given.options}

C16_Witness ==
  /\ entity.state = "live"
  /\ client.rereads > 0
  /\ client.lastTags = <<TopicHooks, TopicOther>>
  /\ \E ref \in client.held :
       /\ heap[ref].kind = "tags"
       /\ heap[ref].items = <<TopicOther, TopicHooks>>

\* the stored pool of the item both calls ask for
SharedPool ==
  findByTags(questionTable, optionTable, TagsOf(SeedRoadmap.items[1]),
             SeedRoadmap.items[1].difficulty)

\* C17: a call that has found fewer than MIN_POOL_SIZE questions has asked the
\* generator for the difference, whatever the other call is doing; the
\* backfills of the two calls share no question, and once both have been
\* committed the stored pool of the topic and difficulty holds more than
\* MIN_POOL_SIZE questions.
C17_DoubleBackfill ==
  \A p \in Procs : \A q \in Procs \ {p} :
    /\ (ctx[p].poolSize >= 0 /\ ctx[p].poolSize < MIN_POOL_SIZE) =>
         /\ Cardinality(CallsOf(p, "generate")) = 1
         /\ \A i \in CallsOf(p, "generate") :
              calls[p][i].arg.count = MIN_POOL_SIZE - ctx[p].poolSize
    /\ backfilled[p] \cap backfilled[q] = {}
    /\ (backfilled[p] # {} /\ backfilled[q] # {}) =>
         /\ ctx[p].poolSize < MIN_POOL_SIZE /\ ctx[q].poolSize < MIN_POOL_SIZE
         /\ backfilled[p] \cup backfilled[q] \subseteq IdsOf(SharedPool)
         /\ Len(SharedPool) > MIN_POOL_SIZE

C17_Witness ==
  /\ \A p \in Procs : pc[p] = "saveUsage" /\ ctx[p].poolSize = MIN_POOL_SIZE - 1
  /\ \A p \in Procs : Cardinality(backfilled[p]) = 1
  /\ Len(SharedPool) = MIN_POOL_SIZE + 1

\* the milestones of a list that are completed
Completed(items) == {i \in 1..Len(items) : items[i].status = "completed"}

\* round(100 * completed / total) in exact arithmetic, halves going up
RoundedPercent(completed, total) == (200 * completed + total) \div (2 * total)

\* the status the item of the call's id has in a list of items
StatusIn(items) ==
  {items[i].status : i \in {k \in 1..Len(items) : items[k].id = update.itemId}}

\* C18: the progress of the RoadmapDTO that UpdateRoadmapItemStatus returns is
\* 0 for a roadmap without items and otherwise round(100 * completed / total),
\* an integer in 0..100 computed from the statuses the DTO shows, the status
\* just written among them.
C18_AsStated ==
  update.stage = "done" =>
    LET dto == update.returned
    IN /\ dto.progress \in 0..100
       /\ dto.progress = IF Len(dto.items) = 0 THEN 0
                         ELSE RoundedPercent(Cardinality(Completed(dto.items)),
                                             Len(dto.items))
       /\ StatusIn(dto.items) = {update.status}

\* C19: UpdateRoadmapItemStatus accepts every transition between the three
\* statuses: a call fails only for a blank id, an absent roadmap, an item the
\* roadmap does not hold or a failing save; once its save has resolved the item
\* has the requested status in the stored roadmap (and in the DTO returned) and
\* save was called exactly once; a call that failed because the roadmap is
\* absent or the item is not in it never called save and stored nothing.
C19_UpdateStatus ==
  LET stored == IF update.roadmapId \in DOMAIN roadmapStore
                  THEN roadmapStore[update.roadmapId] ELSE NoRoadmap
  IN /\ update.stage \in {"saved", "done"} =>
          /\ update.was \in Statuses
          /\ StatusIn(stored.items) = {update.status}
          /\ stored = update.roadmap
          /\ update.saves = 1
     /\ update.stage = "done" => StatusIn(update.returned.items) = {update.status}
     /\ update.stage = "failed" =>
          \/ /\ update.error = "RoadmapId cannot be empty"
             /\ Len(Trim(update.roadmapId)) = 0
             /\ update.saves = 0
          \/ /\ update.error = "Roadmap not found"
             /\ update.roadmapId \notin DOMAIN roadmapStore
             /\ update.saves = 0
          \/ /\ update.error = "RoadmapItemId cannot be empty"
             /\ Len(Trim(update.itemId)) = 0
             /\ update.saves = 0
          \/ /\ update.error = "RoadmapItem not found"
             /\ StatusIn(stored.items) = {}
             /\ update.saves = 0
          \/ /\ update.error = PersistenceFailure
             /\ update.saves = 1
             /\ StatusIn(stored.items) = {update.was}

\* a completed milestone has been reopened, saved and returned
C19_Witness ==
  /\ update.stage = "done"
  /\ update.was = "completed"
  /\ update.status = "pending"
  /\ update.saves = 1
  /\ Len(update.returned.items) > 1

\* the collaborator calls of an execute, in the order they were issued
OpsOf(p) == [i \in 1..Len(calls[p]) |-> calls[p][i].op]
IdList(questions) == [i \in 1..Len(questions) |-> questions[i].id]
IsPrefix(s, t) == Len(s) <= Len(t) /\ s = SubSeq(t, 1, Len(s))

\* the calls of an execute that backfills, and of one that does not
BackfillingCalls == <<"findById", "findByTags", "generate", "saveMany", "saveMany">>
PlainCalls == <<"findById", "findByTags", "saveMany">>

\* the sampled question is the question of that id in the merged pool, used
\* once more
UsedOnceMore(p, question) ==
  \E i \in 1..Len(ctx[p].allQuestions) :
    /\ ctx[p].allQuestions[i].id = question.id
    /\ question.usageCount = ctx[p].allQuestions[i].usageCount + 1

\* C20: the collaborator calls of one execute are issued one after the other,
\* each when the one before has resolved: findById, findByTags, then, when
\* the pool is short, generate and one saveMany of exactly the generated
\* questions, then one saveMany of exactly the sampled questions with their
\* usage incremented; the QuizDTO is returned only when that saveMany has
\* committed, so saveMany is called twice by a backfilling execute and once
\* by any other.
C20_CallSequence ==
  \A p \in Procs :
    LET ops == OpsOf(p)
        backfills == ctx[p].poolSize \in 0..(MIN_POOL_SIZE - 1)
        expected == IF backfills THEN BackfillingCalls ELSE PlainCalls
    IN /\ IsPrefix(ops, expected)
       /\ pc[p] = "idle" => ops = << >>
       /\ pc[p] = "findById" => ops = <<"findById">>
       /\ pc[p] = "findByTags" => ops = <<"findById", "findByTags">>
       /\ pc[p] = "generate" =>
            /\ ops = SubSeq(BackfillingCalls, 1, 3)
            /\ backfills
            /\ calls[p][3].arg.count = MIN_POOL_SIZE - ctx[p].poolSize
       /\ pc[p] = "saveNew" =>
            /\ ops = SubSeq(BackfillingCalls, 1, 4)
            /\ calls[p][4].arg = IdList(ctx[p].newQuestions)
            /\ tx[p].questions = ctx[p].newQuestions
            /\ tx[p].state = "open"
       /\ pc[p] \in {"saveUsage", "done"} =>
            /\ ops = expected
            /\ backfills => calls[p][4].arg = IdList(ctx[p].newQuestions)
            /\ ctx[p].allQuestions = ctx[p].existingQuestions \o ctx[p].newQuestions
            /\ calls[p][Len(ops)].arg = IdList(ctx[p].selectedQuestions)
            /\ tx[p].questions = ctx[p].selectedQuestions
            /\ \A i \in 1..Len(ctx[p].selectedQuestions) :
                 UsedOnceMore(p, ctx[p].selectedQuestions[i])
       /\ pc[p] = "saveUsage" => tx[p].state = "open"
       /\ pc[p] = "done" =>
            /\ tx[p].state = "committed"
            /\ [i \in 1..Len(result[p].questions) |-> result[p].questions[i].id]
                 = IdList(ctx[p].selectedQuestions)
            /\ \A i \in 1..Len(ctx[p].selectedQuestions) :
                 questionTable[ctx[p].selectedQuestions[i].id].usageCount
                   = ctx[p].selectedQuestions[i].usageCount
            /\ Cardinality(CallsOf(p, "saveMany")) = IF backfills THEN 2 ELSE 1
       /\ pc[p] # "done" => result[p] = NoQuiz

\* a pool of 3 was backfilled with 7 questions in one saveMany, and the quiz
\* of 5 was returned after the saveMany of the sample
C20_Witness ==
  \E p \in Procs :
    /\ pc[p] = "done"
    /\ ctx[p].poolSize = 3
    /\ calls[p][3].arg.count = 7
    /\ Len(calls[p][4].arg) = 7
    /\ Len(calls[p][5].arg) = 5
    /\ Len(result[p].questions) = 5
    /\ Len(ctx[p].allQuestions) = 10

\* the findByTags call of an execute, once it has been issued
LookupOf(p) == calls[p][2].arg

\* C21: every question the backfill of an execute builds carries exactly one
\* tag, the tag of the findByTags call of that execute, and the difficulty of
\* that call, so that the same lookup matches it.
C21_AsStated ==
  \A p \in Procs :
    pc[p] \in {"saveNew", "saveUsage", "done"} =>
      \A i \in 1..Len(ctx[p].newQuestions) :
        LET question == ctx[p].newQuestions[i]
        IN /\ Len(question.tags) = 1
           /\ question.tags = LookupOf(p).tags
           /\ question.difficulty = LookupOf(p).difficulty
           /\ hasSome(question.tags, LookupOf(p).tags)

C23_AsStated ==
  [][\A id \in DOMAIN questionTable :
       /\ questionTable'[id].usageCount >= questionTable[id].usageCount
       /\ questionTable[id].usageCount >= 0]_vars

\* the quizzes returned that hold the question of an id
QuizzesWith(id) ==
  {p \in Procs : \E i \in 1..Len(result[p].questions) : result[p].questions[i].id = id}

\* each of the two callers has made one call and both calls have returned
BothServedOnce == CallsMade = 2 /\ \A p \in Procs : pc[p] = "done"

\* the store the first of the calls started from
StoreAtFirstCall ==
  LET first == CHOOSE p \in Procs : \A id \in DOMAIN storeAtCall[p].q :
                 \A q \in Procs : storeAtCall[p].q[id].usageCount <= storeAtCall[q].q[id].usageCount
  IN storeAtCall[first].q

\* C24: once two execute calls have both returned, the stored usageCount of
\* every question that was stored before them is its usageCount before the
\* calls plus the number of the returned quizzes that hold it.
C24_AsStated ==
  BothServedOnce =>
    \A id \in DOMAIN StoreAtFirstCall :
      questionTable[id].usageCount
        = StoreAtFirstCall[id].usageCount + Cardinality(QuizzesWith(id))

\* the ids of the questions of the quiz returned to a caller
QuizIds(p) == [i \in 1..Len(result[p].questions) |-> result[p].questions[i].id]

\* C25: whatever the other call does, a quiz that has been returned holds
\* min(QUIZ_SIZE, size of the pool its call read plus what its call generated)
\* questions, no id twice, each a question of that combined pool and each
\* stored.
C25_ServedQuiz ==
  \A p \in Procs :
    pc[p] = "done" =>
      /\ Len(QuizIds(p)) = Min(QUIZ_SIZE, ctx[p].poolSize + Len(ctx[p].newQuestions))
      /\ \A i, k \in 1..Len(QuizIds(p)) : i # k => QuizIds(p)[i] # QuizIds(p)[k]
      /\ \A i \in 1..Len(QuizIds(p)) :
           /\ QuizIds(p)[i] \in IdsOf(ctx[p].allQuestions)
           /\ QuizIds(p)[i] \in DOMAIN questionTable

\* both calls found the pool short, both backfilled it, and both returned a
\* quiz, one of them with a question generated by its own call
C25_Witness ==
  /\ \A p \in Procs : pc[p] = "done" /\ backfilled[p] # {}
  /\ Len(SharedPool) > MIN_POOL_SIZE
  /\ \E p \in Procs : \E i \in 1..Len(QuizIds(p)) : QuizIds(p)[i] \in backfilled[p]

\* C26: an execute that follows a successful execute for the same theory item
\* finds at least MIN_POOL_SIZE questions in its pool lookup and does not call
\* the generator, whether the item has a topic or not.
C26_AsStated ==
  (CallsMade >= 2 /\ ctx[Handler].poolSize >= 0) =>
    /\ ctx[Handler].poolSize >= MIN_POOL_SIZE
    /\ CallsOf(Handler, "generate") = {}

\* the stored usage counts of the questions that were stored when p called
UsageAsAtCall(p) ==
  \A id \in DOMAIN storeAtCall[p].q :
    /\ id \in DOMAIN questionTable
    /\ questionTable[id].usageCount = storeAtCall[p].q[id].usageCount

\* C27: when execute has thrown, at whatever step, every question that was
\* stored before the call has the stored usageCount it had before the call.
C27_FailureKeepsUsage ==
  \A p \in Procs : pc[p] = "failed" => UsageAsAtCall(p)

\* the save of the incremented sample failed after its first upsert was
\* issued, following a backfill that was committed
C27_Witness ==
  \E p \in Procs :
    /\ pc[p] = "failed"
    /\ tx[p].state = "rolledBack"
    /\ tx[p].issued >= 1
    /\ backfilled[p] # {}
    /\ ctx[p].selectedQuestions # << >>
    /\ \E i \in 1..Len(ctx[p].selectedQuestions) :
         ctx[p].selectedQuestions[i].id \in DOMAIN storeAtCall[p].q

TargetRows(p) ==
  {r \in roadmapItemTable :
     r.roadmapId = updates[p].roadmapId /\ r.id = updates[p].itemId}

\* C29: when two calls for two different items of the same roadmap have both
\* completed, the stored roadmap shows both requested statuses.
C29_AsStated ==
  \A p, q \in Procs :
    (/\ p # q
     /\ updates[p].stage = "done" /\ updates[q].stage = "done"
     /\ updates[p].roadmapId = updates[q].roadmapId
     /\ updates[p].itemId # updates[q].itemId) =>
      /\ \A r \in TargetRows(p) : r.status = STATUS_TO_PRISMA(updates[p].status)
      /\ \A r \in TargetRows(q) : r.status = STATUS_TO_PRISMA(updates[q].status)

\* the item rows of a roadmap, and the quiz attempts on its items
ItemRowsOf(iT, roadmapId) == {r \in iT : r.roadmapId = roadmapId}
AttemptsOn(aT, rows) == {a \in aT : \E r \in rows : a.roadmapItemId = r.id}

\* C30: a call that has completed, with no other call under way, left every
\* item row of the roadmap as it was but for the status of the item asked
\* for, and left the quiz attempts on the roadmap's items as they were.
C30_AsStated ==
  \A p \in Procs :
    (/\ updates[p].stage = "done"
     /\ \A q \in Procs \ {p} : updates[q].stage = "idle") =>
      LET was == ItemRowsOf(updates[p].before.i, updates[p].roadmapId)
          is == ItemRowsOf(roadmapItemTable, updates[p].roadmapId)
      IN /\ \A r \in was : \E t \in is :
              /\ t.id = r.id
              /\ r.id # updates[p].itemId => t.status = r.status
              /\ t.type = r.type
              /\ t.topic = r.topic
              /\ t.difficulty = r.difficulty
              /\ t.submissionUrl = r.submissionUrl
         /\ AttemptsOn(quizAttemptTable, is) = AttemptsOn(updates[p].before.a, was)

====
